---------------------------- MODULE Spec2Model ----------------------------
(***************************************************************************)
(* Model of the token enrichment pipeline (weighted price resolver, trust  *)
(* scorer, market cap validator, batch pass and report) and of the         *)
(* serving layer that reads the report (TokenService).                     *)
(*                                                                         *)
(* JavaScript numbers are modelled as exact rationals [n, d] in lowest     *)
(* terms; amounts, supplies and liquidity are integers.  An absent field   *)
(* of a JavaScript object (undefined) is modelled by the falsy value of    *)
(* its type together with the record's "defined" set of field names.       *)
(***************************************************************************)
EXTENDS Integers, Sequences, FiniteSets, TLC

VARIABLES
  priceSrc,   \* responses of the Price/Liquidity Source for one token
  wpOut,      \* the object returned by calculateWeightedPrice
  wpDone,     \* calculateWeightedPrice has returned
  tsArgs,     \* the arguments of one calculateTrustScore call
  tsOut,      \* the object returned by calculateTrustScore
  tsDone,     \* calculateTrustScore has returned
  enhToken,   \* the token summary passed to one enhanceTokenData call
  enhOthers,  \* the other summaries of the summaries directory
  enhEnv,     \* the upstream responses seen by that call
  enhWp,      \* its price assessment
  enhTa,      \* its trustAssessment, with the detection flags
  enhOut,     \* the record it returns
  enhDone,    \* enhanceTokenData has returned
  summaries,     \* the "_summary.json" files of the summaries directory
  envChoices,    \* for each token, what its enhanceTokenData call may meet
  batchStart,    \* the loop variable i of batchProcessTokens
  inFlight,      \* the positions whose enhanceTokenData call is pending
  settled,       \* batchResults: the settled promises of the batch
  waited,        \* milliseconds of the inter-batch delay that have passed
  mainPc,            \* the position of main in its run
  results,       \* the results array of batchProcessTokens
  enhancedFiles, \* the "_enhanced_refined.json" file of each summary
  report,        \* the file market_cap_report_refined.json
  cachedTokens,  \* TokenService.cachedTokens
  lastCacheTime, \* TokenService.lastCacheTime (0 for null)
  now,           \* Date.now()
  response,      \* the last list returned to a request
  cachedAt,      \* history: when each cache was last filled, 0 once cleared
  vercel,             \* process.env.VERCEL is set
  isRefreshing,       \* server.js: let isRefreshing
  isVolumeRefreshing, \* server.js: let isVolumeRefreshing
  tokenPasses,        \* the refreshTokenData calls between flag set and reset
  volumeRuns,         \* the pending volumeService.refreshVolumeData() calls
  volumeFile,         \* the file fixed_token_volumes.json
  cachedVolumeData,   \* VolumeService.cachedVolumeData
  volumeCacheTime,    \* VolumeService.lastCacheTime (0 for null)
  lastEvent,          \* the last call made to the server and what it returned
  lastRefreshed,      \* history: the result of the last completed volume refresh
  request,            \* the HTTP request handed to the /api/tokens router
  httpResponse,       \* the route that answered it and its answer
  orderFeed,          \* what POST /swap/globalOrders answers, page by page
  currentPage,        \* getAllOrders: currentPage
  hasMoreOrders,      \* getAllOrders: hasMoreOrders
  allOrders,          \* getAllOrders: allOrders
  pageRequests,       \* the page requests getAllOrders has made
  ordersPc            \* the position of getAllOrders

priceVars == <<priceSrc, wpOut, wpDone>>

trustVars == <<tsArgs, tsOut, tsDone>>

enhVars == <<enhToken, enhOthers, enhEnv, enhWp, enhTa, enhOut, enhDone>>

passVars == <<summaries, envChoices, batchStart, inFlight, settled, waited, mainPc, results, enhancedFiles, report, cachedTokens, lastCacheTime, now, response, cachedAt>>

\* the variables of server.js and VolumeService
refreshVars == <<vercel, isRefreshing, isVolumeRefreshing, tokenPasses, volumeRuns, volumeFile, cachedVolumeData, volumeCacheTime, lastEvent, lastRefreshed>>

\* the variables of one request to the router
routerVars == <<request, httpResponse>>

\* the variables of one getAllOrders call
ordersVars == <<orderFeed, currentPage, hasMoreOrders, allOrders, pageRequests, ordersPc>>

appVars == <<refreshVars, routerVars, ordersVars>>

vars == <<priceVars, trustVars, enhVars, passVars, appVars>>

(***************************************************************************)
(* Bounds of the model                                                     *)
(***************************************************************************)
MaxPools == 3
MaxTokens == 3
MaxLimit == 2
MaxTicks == 2
MaxBatchTokens == 11

\* the pending volume refreshes the router may have started
MaxVolumeRuns == 2

(***************************************************************************)
(* Configuration constants of the integration script                       *)
(***************************************************************************)
MAX_REASONABLE_PRICE == 1000
MIN_REASONABLE_PRICE == [n |-> 1, d |-> 1000000]
MIN_LIQUIDITY_THRESHOLD == 500
MAX_MCAP_LIQUIDITY_RATIO == 10000
MIN_POOLS_REQUIRED == 3

(***************************************************************************)
(* Exact arithmetic on non-negative rationals                              *)
(***************************************************************************)
RECURSIVE GCD(_, _)
GCD(a, b) == IF b = 0 THEN a ELSE GCD(b, a % b)

Rat(n, d) == LET g == GCD(n, d) IN IF n = 0 THEN [n |-> 0, d |-> 1]
                                   ELSE [n |-> n \div g, d |-> d \div g]

RInt(i) == [n |-> i, d |-> 1]

RZero == RInt(0)

\* r1 * r2, cross-reduced before multiplying
RMul(r1, r2) ==
  LET a == Rat(r1.n, r2.d)
      b == Rat(r2.n, r1.d)
  IN  Rat(a.n * b.n, a.d * b.d)

\* r1 + r2 over the least common denominator
RAdd(r1, r2) ==
  LET g == GCD(r1.d, r2.d)
      l == (r1.d \div g) * r2.d
  IN  Rat(r1.n * (l \div r1.d) + r2.n * (l \div r2.d), l)

\* r > k for an integer k >= 0 (no cross multiplication)
RGtInt(r, k) == (r.n \div r.d) > k \/ ((r.n \div r.d) = k /\ (r.n % r.d) > 0)

\* r < k for an integer k >= 0
RLtInt(r, k) == (r.n \div r.d) < k

\* n1/d1 < n2/d2 by comparing integer parts, then the reciprocals of the
\* fractional parts (no cross multiplication)
RECURSIVE FracLt(_, _, _, _)
FracLt(n1, d1, n2, d2) ==
  IF (n1 \div d1) # (n2 \div d2) THEN (n1 \div d1) < (n2 \div d2)
  ELSE IF n2 % d2 = 0 THEN FALSE
  ELSE IF n1 % d1 = 0 THEN TRUE
  ELSE FracLt(d2, n2 % d2, d1, n1 % d1)

RLt(r1, r2) == FracLt(r1.n, r1.d, r2.n, r2.d)

RIsZero(r) == r.n = 0

\* r / q > k for integers q > 0, k >= 0
RatioGt(r, q, k) == RGtInt(Rat(r.n, r.d * q), k)

(***************************************************************************)
(* Price/Liquidity Source responses                                        *)
(***************************************************************************)
\* a pool of the pair ADA/token: token_1_amount (ADA side), token_2_amount
Pool(a, t) == [token_1_amount |-> a, token_2_amount |-> t]

PoolChoices ==
  { Pool(0, 100), Pool(100, 0), Pool(100, 100), Pool(300, 100), Pool(100, 50),
    Pool(1, 100), Pool(10000, 1), Pool(2000, 1), Pool(1, 2000000) }

RECURSIVE SeqsUpTo(_, _)
SeqsUpTo(S, k) ==
  IF k = 0 THEN {<<>>}
  ELSE LET shorter == SeqsUpTo(S, k - 1)
       IN  shorter \cup { Append(s, x) : s \in { q \in shorter : Len(q) = k - 1 }, x \in S }

\* response of GET /stats/pools/ADA/{tokenId}
PoolsResponses ==
  { [kind |-> "error", data |-> <<>>], [kind |-> "malformed", data |-> <<>>] }
  \cup { [kind |-> "list", data |-> s] : s \in SeqsUpTo(PoolChoices, MaxPools) }

\* response of GET /swap/averagePrice: the request throws, or it carries a
\* price (price 0 stands for a missing or falsy price field)
AvgBAResponses == { [err |-> TRUE, price |-> RZero], [err |-> FALSE, price |-> RZero],
                    [err |-> FALSE, price |-> RInt(2)] }

AvgABResponses == { [err |-> TRUE, price |-> RZero], [err |-> FALSE, price |-> RZero],
                    [err |-> FALSE, price |-> RInt(3)] }

PriceSourceResponses ==
  { [pools |-> p, avgBA |-> ba, avgAB |-> ab] :
      p \in PoolsResponses, ba \in AvgBAResponses, ab \in AvgABResponses }

(***************************************************************************)
(* calculateWeightedPrice                                                  *)
(***************************************************************************)
\* the returned object; "defined" lists the fields the object literal has
PriceAssessment(wp, liq, filtered, pc, opc, med, susp, fromAvg, noPools, emptySusp, err, def) ==
  [weightedPrice |-> wp, totalLiquidity |-> liq, filteredOutliers |-> filtered,
   poolCount |-> pc, originalPoolCount |-> opc, medianUsed |-> med,
   suspiciousLiquidity |-> susp, priceFromAveragePrice |-> fromAvg,
   noPoolsFound |-> noPools, emptySuspiciousPools |-> emptySusp,
   error |-> err, defined |-> def]

BaseFields == {"weightedPrice", "totalLiquidity", "filteredOutliers", "poolCount"}

\* pools.map(...).filter(pool => pool.valid)
RECURSIVE poolsWithPrices(_)
poolsWithPrices(pools) ==
  IF pools = <<>> THEN <<>>
  ELSE LET pool == Head(pools)
           adaAmount == pool.token_1_amount
           tokenAmount == pool.token_2_amount
       IN  IF adaAmount <= 0 \/ tokenAmount <= 0
           THEN poolsWithPrices(Tail(pools))
           ELSE <<[adaAmount |-> adaAmount, tokenAmount |-> tokenAmount,
                   price |-> Rat(adaAmount, tokenAmount)]>>
                \o poolsWithPrices(Tail(pools))

isOutlier(pool) ==
  RGtInt(pool.price, MAX_REASONABLE_PRICE) \/ RLt(pool.price, MIN_REASONABLE_PRICE)

hasExtremeOutliers(pwp) == \E i \in 1..Len(pwp) : isOutlier(pwp[i])

\* a filter that forgets the lower bound of the reasonable range
reasonablePools_noMin(pwp) ==
  IF hasExtremeOutliers(pwp)
  THEN SelectSeq(pwp, LAMBDA pool : ~RGtInt(pool.price, MAX_REASONABLE_PRICE))
  ELSE pwp

reasonablePools(pwp) ==
  IF hasExtremeOutliers(pwp) THEN SelectSeq(pwp, LAMBDA pool : ~isOutlier(pool)) ELSE pwp

RECURSIVE sumLiquidity(_)
sumLiquidity(ps) == IF ps = <<>> THEN 0 ELSE Head(ps).adaAmount + sumLiquidity(Tail(ps))

\* [...poolsWithPrices].sort((a, b) => a.price - b.price): insertion of each
\* pool after the pools whose price is not larger (the sort is stable)
RECURSIVE insertByPrice(_, _)
insertByPrice(sorted, pool) ==
  IF sorted = <<>> THEN <<pool>>
  ELSE IF RLt(pool.price, Head(sorted).price) THEN <<pool>> \o sorted
  ELSE <<Head(sorted)>> \o insertByPrice(Tail(sorted), pool)

RECURSIVE sortedPrices(_)
sortedPrices(ps) ==
  IF ps = <<>> THEN <<>>
  ELSE insertByPrice(sortedPrices(SubSeq(ps, 1, Len(ps) - 1)), ps[Len(ps)])

\* the lower middle element for an even number of pools
medianPrice_lowerMiddle(pwp) == sortedPrices(pwp)[(Len(pwp) + 1) \div 2].price

medianPrice(pwp) == sortedPrices(pwp)[(Len(pwp) \div 2) + 1].price

cappedPrice(pwp) ==
  IF RGtInt(medianPrice(pwp), MAX_REASONABLE_PRICE) THEN RInt(MAX_REASONABLE_PRICE)
  ELSE medianPrice(pwp)

\* sortedByLiquidity[0].adaAmount
RECURSIVE maxLiquidity(_)
maxLiquidity(ps) ==
  IF ps = <<>> THEN 0
  ELSE LET m == maxLiquidity(Tail(ps))
       IN  IF Head(ps).adaAmount > m THEN Head(ps).adaAmount ELSE m

\* only the single-pool case is flagged
suspiciousLiquidity_singleOnly(rp, totalLiquidity) == Len(rp) = 1

\* reasonablePools.length === 1 || top pool / totalLiquidity > 0.95
suspiciousLiquidity(rp, totalLiquidity) ==
  Len(rp) = 1 \/ 100 * maxLiquidity(rp) > 95 * totalLiquidity

\* a weight taken from the token side of the pool instead of the ADA side
weight_tokenSide(pool, totalLiquidity) == Rat(pool.tokenAmount, totalLiquidity)

\* const weight = pool.adaAmount / totalLiquidity
weight(pool, totalLiquidity) == Rat(pool.adaAmount, totalLiquidity)

\* reasonablePools.reduce((sum, pool) => sum + pool.price * weight, 0)
RECURSIVE weightedSum(_, _)
weightedSum(ps, totalLiquidity) ==
  IF ps = <<>> THEN RZero
  ELSE RAdd(weightedSum(SubSeq(ps, 1, Len(ps) - 1), totalLiquidity),
            RMul(ps[Len(ps)].price, weight(ps[Len(ps)], totalLiquidity)))

\* the object built from a price of the averagePrice endpoint (no pool data)
averagePriceResult(price) ==
  PriceAssessment(price, 0, FALSE, 0, 0, FALSE, TRUE, TRUE, FALSE, FALSE, FALSE,
                  BaseFields \cup {"originalPoolCount", "priceFromAveragePrice",
                                   "suspiciousLiquidity"})

noPoolsResult ==
  PriceAssessment(RZero, 0, FALSE, 0, 0, FALSE, TRUE, FALSE, TRUE, FALSE, FALSE,
                  BaseFields \cup {"originalPoolCount", "suspiciousLiquidity",
                                   "noPoolsFound"})

\* branch taken when the pool list is missing, not an array, or empty
noPoolData(src) ==
  IF src.avgBA.err THEN noPoolsResult
  ELSE IF ~RIsZero(src.avgBA.price) THEN averagePriceResult(src.avgBA.price)
  ELSE IF src.avgAB.err THEN noPoolsResult
  ELSE IF ~RIsZero(src.avgAB.price) THEN averagePriceResult(src.avgAB.price)
  ELSE noPoolsResult

\* the reverse lookup consulted for empty pools
emptyPools_reverseLookup(src, pools) ==
  PriceAssessment(src.avgAB.price, 0, FALSE, 0, Len(pools), FALSE, TRUE, TRUE,
                  FALSE, TRUE, FALSE, BaseFields)

\* branch taken when pools exist but none has a valid price
emptyPools(src, pools) ==
  IF ~src.avgBA.err /\ ~RIsZero(src.avgBA.price)
  THEN PriceAssessment(src.avgBA.price, 0, FALSE, 0, Len(pools), FALSE, TRUE, TRUE,
                       FALSE, TRUE, FALSE,
                       BaseFields \cup {"originalPoolCount", "medianUsed",
                                        "suspiciousLiquidity", "priceFromAveragePrice",
                                        "emptySuspiciousPools"})
  ELSE PriceAssessment(RZero, 0, FALSE, 0, Len(pools), FALSE, TRUE, FALSE,
                       FALSE, TRUE, FALSE,
                       BaseFields \cup {"originalPoolCount", "suspiciousLiquidity",
                                        "emptySuspiciousPools"})

\* branch taken when filtering leaves no reasonable pool
medianResult(pwp) ==
  PriceAssessment(cappedPrice(pwp), sumLiquidity(pwp), TRUE, Len(pwp), 0, TRUE,
                  FALSE, FALSE, FALSE, FALSE, FALSE,
                  BaseFields \cup {"medianUsed"})

weightedResult(pools, pwp) ==
  LET rp == reasonablePools(pwp)
      totalLiquidity == sumLiquidity(rp)
      susp == suspiciousLiquidity(rp, totalLiquidity)
  IN  IF totalLiquidity = 0
      THEN PriceAssessment(RZero, 0, hasExtremeOutliers(pwp), Len(rp), 0, FALSE,
                           FALSE, FALSE, FALSE, FALSE, FALSE, BaseFields)
      ELSE PriceAssessment(weightedSum(rp, totalLiquidity), totalLiquidity,
                           hasExtremeOutliers(pwp), Len(rp), Len(pools), susp, susp,
                           FALSE, FALSE, FALSE, FALSE,
                           BaseFields \cup {"originalPoolCount", "medianUsed",
                                            "suspiciousLiquidity",
                                            "priceFromAveragePrice"})

\* the catch block of calculateWeightedPrice
errorResult ==
  PriceAssessment(RZero, 0, FALSE, 0, 0, FALSE, FALSE, FALSE, FALSE, FALSE, TRUE,
                  BaseFields \cup {"error"})

calculateWeightedPrice(src) ==
  IF src.pools.kind = "error" THEN errorResult
  ELSE IF src.pools.kind = "malformed" \/ Len(src.pools.data) = 0 THEN noPoolData(src)
  ELSE LET pools == src.pools.data
           pwp == poolsWithPrices(pools)
       IN  IF Len(pwp) = 0 THEN emptyPools(src, pools)
           ELSE IF Len(reasonablePools(pwp)) = 0 THEN medianResult(pwp)
           ELSE weightedResult(pools, pwp)

(***************************************************************************)
(* Specification of the price resolver alone: the source's responses are   *)
(* drawn from the bounded sets and calculateWeightedPrice is applied.      *)
(***************************************************************************)
\* no call of the resolver is modelled
IdlePrice ==
  /\ priceSrc = [pools |-> [kind |-> "error", data |-> <<>>],
                 avgBA |-> [err |-> TRUE, price |-> RZero],
                 avgAB |-> [err |-> TRUE, price |-> RZero]]
  /\ wpOut = errorResult
  /\ wpDone = FALSE

PriceInputs ==
  /\ priceSrc \in PriceSourceResponses
  /\ wpOut = errorResult
  /\ wpDone = FALSE

ResolvePrice ==
  /\ ~wpDone
  /\ wpOut' = calculateWeightedPrice(priceSrc)
  /\ wpDone' = TRUE
  /\ UNCHANGED <<priceSrc, trustVars, enhVars, passVars, appVars>>

(***************************************************************************)
(* Properties of the price resolver, stated on the raw pool list           *)
(***************************************************************************)
RawPools == priceSrc.pools.data

\* indices of the raw pools with both sides positive
ValidIdx == { i \in 1..Len(RawPools) :
                RawPools[i].token_1_amount > 0 /\ RawPools[i].token_2_amount > 0 }

\* token_1_amount / token_2_amount within [0.000001, 1000]
PriceInRange(pool) ==
  /\ pool.token_1_amount <= 1000 * pool.token_2_amount
  /\ pool.token_1_amount > (pool.token_2_amount - 1) \div 1000000

InRangeIdx == { i \in ValidIdx : PriceInRange(RawPools[i]) }

RECURSIVE SumAda(_)
SumAda(I) ==
  IF I = {} THEN 0
  ELSE LET i == CHOOSE j \in I : TRUE
       IN  RawPools[i].token_1_amount + SumAda(I \ {i})

\* sum over I of price * adaAmount = adaAmount^2 / tokenAmount
RECURSIVE SumPriceTimesAda(_)
SumPriceTimesAda(I) ==
  IF I = {} THEN RZero
  ELSE LET i == CHOOSE j \in I : TRUE
       IN  RAdd(Rat(RawPools[i].token_1_amount * RawPools[i].token_1_amount,
                    RawPools[i].token_2_amount),
                SumPriceTimesAda(I \ {i}))

\* the assessment is the liquidity-weighted average over the pools of I
WeightedOver(I) ==
  /\ wpOut.totalLiquidity = SumAda(I)
  /\ wpOut.poolCount = Cardinality(I)
  /\ RMul(wpOut.weightedPrice, RInt(SumAda(I))) = SumPriceTimesAda(I)

\* C9: when every valid pool price is within the reasonable range, the
\* assessment has totalLiquidity = sum of the ADA sides of the valid pools,
\* poolCount = number of valid pools and weightedPrice = sum of
\* price * (adaAmount / totalLiquidity); liquidities 100 and 300 with prices
\* 1 and 3 give 2.5.
C9_WeightedAverage ==
  (wpDone /\ priceSrc.pools.kind = "list" /\ ValidIdx # {} /\ InRangeIdx = ValidIdx)
    => /\ WeightedOver(ValidIdx)
       /\ (RawPools = <<Pool(100, 100), Pool(300, 100)>>
             => wpOut.weightedPrice = Rat(5, 2))

C9_Witness ==
  /\ wpDone
  /\ RawPools = <<Pool(100, 100), Pool(300, 100)>>
  /\ wpOut.weightedPrice = Rat(5, 2)
  /\ wpOut.totalLiquidity = 400

\* C10: when some valid pool price is outside the reasonable range and some
\* is inside, every out-of-range pool is dropped, filteredOutliers is true
\* and price, liquidity and poolCount come from the in-range pools only;
\* pools priced 10,000 and 1 give weightedPrice 1.
C10_OutliersFiltered ==
  (wpDone /\ priceSrc.pools.kind = "list" /\ InRangeIdx # {} /\ InRangeIdx # ValidIdx)
    => /\ WeightedOver(InRangeIdx)
       /\ wpOut.filteredOutliers
       /\ (RawPools = <<Pool(10000, 1), Pool(100, 100)>>
             => wpOut.weightedPrice = RInt(1))

C10_Witness ==
  /\ wpDone
  /\ RawPools = <<Pool(10000, 1), Pool(100, 100)>>
  /\ wpOut.filteredOutliers
  /\ wpOut.weightedPrice = RInt(1)
  /\ wpOut.poolCount = 1


\* the price of a valid raw pool
PriceOf(i) == Rat(RawPools[i].token_1_amount, RawPools[i].token_2_amount)

\* v stands at index floor(n/2) of the ascending-sorted valid pool prices:
\* at most floor(n/2) prices are smaller and more than floor(n/2) are not larger
AtMedianIndex(v) ==
  LET n == Cardinality(ValidIdx)
      smaller == { i \in ValidIdx : RLt(PriceOf(i), v) }
      notLarger == { i \in ValidIdx : ~RLt(v, PriceOf(i)) }
  IN  Cardinality(smaller) <= n \div 2 /\ n \div 2 < Cardinality(notLarger)

\* Math.min(v, MAX_REASONABLE_PRICE), stated on the raw value
CappedAt(v) == IF RGtInt(v, 1000) THEN RInt(1000) ELSE v

\* C11: if every valid pool price is outside the reasonable range, the
\* assessment has weightedPrice = min(price at index floor(n/2) of the
\* ascending-sorted valid pool prices, MAX_REASONABLE_PRICE), totalLiquidity
\* = sum of the ADA sides of all valid pools, medianUsed = true and
\* filteredOutliers = true.
C11_MedianFallback ==
  (wpDone /\ priceSrc.pools.kind = "list" /\ ValidIdx # {} /\ InRangeIdx = {})
    => /\ \E i \in ValidIdx :
            AtMedianIndex(PriceOf(i)) /\ wpOut.weightedPrice = CappedAt(PriceOf(i))
       /\ wpOut.totalLiquidity = SumAda(ValidIdx)
       /\ wpOut.medianUsed
       /\ wpOut.filteredOutliers

C11_Witness ==
  /\ wpDone
  /\ RawPools = <<Pool(10000, 1), Pool(1, 2000000)>>
  /\ wpOut.weightedPrice = RInt(1000)
  /\ wpOut.totalLiquidity = 10001
  /\ wpOut.medianUsed

\* C12: the median-fallback flag is true only when range filtering removed
\* every candidate pool and the median price was used; whenever the
\* liquidity-weighted average of reasonable pools is returned, it is false.
C12_MedianFlagOnlyOnFallback ==
  (wpDone /\ wpOut.medianUsed)
    => (priceSrc.pools.kind = "list" /\ ValidIdx # {} /\ InRangeIdx = {})

\* the largest pool of I holds more than 95% of the ADA liquidity of I
Concentrated(I) == \E i \in I : 100 * RawPools[i].token_1_amount > 95 * SumAda(I)

\* C13: when at least one reasonable pool remains, suspiciousLiquidity is
\* true exactly when there is one reasonable pool or the largest reasonable
\* pool holds more than 95% of the liquidity of the reasonable pools; a
\* single pool of 100 ADA / 50 tokens gives price 2, totalLiquidity 100 and
\* suspiciousLiquidity true.
C13_SuspiciousLiquidity ==
  (wpDone /\ priceSrc.pools.kind = "list" /\ InRangeIdx # {})
    => /\ wpOut.suspiciousLiquidity
            <=> (Cardinality(InRangeIdx) = 1 \/ Concentrated(InRangeIdx))
       /\ (RawPools = <<Pool(100, 50)>>
             => /\ wpOut.weightedPrice = RInt(2)
                /\ wpOut.totalLiquidity = 100
                /\ wpOut.suspiciousLiquidity)

C13_Witness ==
  /\ wpDone
  /\ RawPools = <<Pool(100, 100), Pool(1, 100)>>
  /\ wpOut.poolCount = 2
  /\ wpOut.suspiciousLiquidity

\* the pool source answered with an empty or malformed list
NoPoolList ==
  \/ priceSrc.pools.kind = "malformed"
  \/ priceSrc.pools.kind = "list" /\ Len(RawPools) = 0

\* the price found by the fallback lookups, token->ADA first (zero: none)
FallbackPrice ==
  IF priceSrc.avgBA.err THEN RZero
  ELSE IF ~RIsZero(priceSrc.avgBA.price) THEN priceSrc.avgBA.price
  ELSE IF priceSrc.avgAB.err THEN RZero
  ELSE priceSrc.avgAB.price

\* C14: with an empty or malformed pool list, a price found by the fallback
\* lookup is returned with poolCount = 0, priceFromAveragePrice = true,
\* noPoolsFound = true and suspiciousLiquidity = true; when both lookups fail
\* the result has weightedPrice = 0 and noPoolsFound = true.
C14_FallbackAssessment ==
  (wpDone /\ NoPoolList)
    => IF ~RIsZero(FallbackPrice)
       THEN /\ wpOut.weightedPrice = FallbackPrice
            /\ wpOut.poolCount = 0
            /\ wpOut.priceFromAveragePrice
            /\ wpOut.noPoolsFound
            /\ wpOut.suspiciousLiquidity
       ELSE /\ RIsZero(wpOut.weightedPrice)
            /\ wpOut.noPoolsFound

\* C15: calculateWeightedPrice returns an assessment for every response or
\* failure of the source; when all pools are invalid the price is 0 or the
\* fallback price, and on a caught error weightedPrice = 0, totalLiquidity =
\* 0 and poolCount = 0.
C15_NeverThrows ==
  wpDone
    => /\ "weightedPrice" \in wpOut.defined
       /\ (priceSrc.pools.kind = "list" /\ Len(RawPools) > 0 /\ ValidIdx = {})
            => \/ RIsZero(wpOut.weightedPrice)
               \/ ~priceSrc.avgBA.err /\ wpOut.weightedPrice = priceSrc.avgBA.price
       /\ priceSrc.pools.kind = "error"
            => /\ wpOut.error
               /\ RIsZero(wpOut.weightedPrice)
               /\ wpOut.totalLiquidity = 0
               /\ wpOut.poolCount = 0

\* all pools have a zero side and the fallback lookup gives the price
C15_Witness ==
  /\ wpDone
  /\ RawPools = <<Pool(0, 100), Pool(100, 0)>>
  /\ ~priceSrc.avgBA.err
  /\ wpOut.weightedPrice = RInt(2)
  /\ wpOut.emptySuspiciousPools

(***************************************************************************)
(* calculateTrustScore                                                     *)
(***************************************************************************)
HONEYPOT_BLACKLIST ==
  { "f45b5a5a20bb18a37e6e18c4cfe17dbc9be5aa3d6fa0453c06ee8da5c77e80b346455448",
    "addr1w9zru...lfqw" }

TRUSTED_TOKENS == { "5b26e685cc5c9ad630bde3e3cd48c694436671f3d25df53777ca60ef4e564c" }

\* tickers are sequences of characters
UpperCase == <<"A", "B", "C", "D", "E", "F", "G", "H", "I", "J", "K", "L", "M",
               "N", "O", "P", "Q", "R", "S", "T", "U", "V", "W", "X", "Y", "Z">>

LowerCase == <<"a", "b", "c", "d", "e", "f", "g", "h", "i", "j", "k", "l", "m",
               "n", "o", "p", "q", "r", "s", "t", "u", "v", "w", "x", "y", "z">>

IsUpper(c) == \E i \in 1..26 : UpperCase[i] = c

IsLower(c) == \E i \in 1..26 : LowerCase[i] = c

IsLetter(c) == IsUpper(c) \/ IsLower(c)

\* the character as the /i flag sees it
ToLower(c) == IF IsUpper(c) THEN LowerCase[CHOOSE i \in 1..26 : UpperCase[i] = c] ELSE c

AllLetters(t) == \A i \in 1..Len(t) : IsLetter(t[i])

LowerOf(t) == [i \in 1..Len(t) |-> ToLower(t[i])]

\* /^[Ii][A-Za-z]+$/
copycatLeadingI(t) == Len(t) >= 2 /\ AllLetters(t) /\ t[1] \in {"I", "i"}

\* /^[A-Za-z]+[A-Z]{3,4}$/
copycatTrailingCaps(t) ==
  Len(t) >= 4 /\ AllLetters(t) /\ \A i \in (Len(t) - 2)..Len(t) : IsUpper(t[i])

\* /^[A-Za-z]+[A-Z]{2,3}[A-Za-z]+$/
copycatEmbeddedCaps(t) ==
  AllLetters(t) /\ \E i \in 2..(Len(t) - 2) : IsUpper(t[i]) /\ IsUpper(t[i + 1])

COPYCAT_PATTERNS(t) == copycatLeadingI(t) \/ copycatTrailingCaps(t) \/ copycatEmbeddedCaps(t)

\* /^[iwb]btc$/i, /^[iwbe]th$/i, /^[iw]usdc?$/i, /^[iw]usdt?$/i
WRAPPED_TOKEN_PATTERNS(t) ==
  LET l == LowerOf(t)
  IN  \/ Len(l) = 4 /\ l[1] \in {"i", "w", "b"} /\ SubSeq(l, 2, 4) = <<"b", "t", "c">>
      \/ Len(l) = 3 /\ l[1] \in {"i", "w", "b", "e"} /\ SubSeq(l, 2, 3) = <<"t", "h">>
      \/ Len(l) \in {4, 5} /\ l[1] \in {"i", "w"} /\ SubSeq(l, 2, 4) = <<"u", "s", "d">>
           /\ (Len(l) = 5 => l[5] \in {"c", "t"})

\* the running state of the scorer: let score, const penalties, const bonuses
scoreStart == [score |-> 100, penalties |-> <<>>, bonuses |-> <<>>]

\* penalties.push({reason, points}); score -= delta
penalty(st, reason, points, delta) ==
  [st EXCEPT !.penalties = Append(@, [reason |-> reason, points |-> points]),
             !.score = @ - delta]

\* bonuses.push({reason, points}); score += delta
bonus(st, reason, points, delta) ==
  [st EXCEPT !.bonuses = Append(@, [reason |-> reason, points |-> points]),
             !.score = @ + delta]

whitelistRule(st, a) ==
  IF a.tokenId \in TRUSTED_TOKENS
  THEN bonus(st, "Token is in trusted whitelist", 50, 50) ELSE st

blacklistRule(st, a) ==
  IF a.tokenId \in HONEYPOT_BLACKLIST
  THEN penalty(st, "Token is in honeypot blacklist", -100, 100) ELSE st

copycatRule(st, a) ==
  IF Len(a.ticker) > 0 /\ COPYCAT_PATTERNS(a.ticker) /\ RGtInt(a.marketCap, 1000000)
  THEN penalty(st, "Possible copycat token with suspicious name pattern", -25, 25)
  ELSE st

supplyRule(st, a) ==
  IF RGtInt(a.marketCap, 1000000) /\ a.circulatingSupply = 0 /\ a.totalLiquidity > 100000
  THEN penalty(st, "High liquidity but zero circulating supply reported", -50, 50)
  ELSE st

manipulationRule(st, a) ==
  IF a.totalLiquidity > 0 /\ ~RIsZero(a.marketCap)
  THEN LET st1 == IF RatioGt(a.marketCap, a.totalLiquidity, 50)
                       /\ RGtInt(a.marketCap, 5000000)
                  THEN penalty(st, "Potential price manipulation", -40, 40)
                  ELSE st
       IN  IF 10 * a.circulatingSupply < a.totalLiquidity /\ RGtInt(a.marketCap, 1000000)
           THEN penalty(st1, "Suspicious circulating supply vs. liquidity ratio", -30, 30)
           ELSE st1
  ELSE st

\* the wrapped-asset bonus without the penalties for missing pools
fallbackPoolRule_bonusOnly(st, a) ==
  IF a.poolCount = 0 /\ Len(a.ticker) > 0 /\ WRAPPED_TOKEN_PATTERNS(a.ticker)
  THEN bonus(st, "Recognized wrapped token pattern", 30, 30)
  ELSE st

\* pool count assessment when the price came from the averagePrice endpoint
fallbackPoolRule(st, a) ==
  IF a.poolCount = 0
  THEN LET st1 == penalty(st, "No liquidity pools found, using fallback price source",
                          -40, 40)
           st2 == IF RGtInt(a.marketCap, 1000000)
                  THEN penalty(st1, "High market cap with no visible liquidity pools",
                               -20, 20)
                  ELSE st1
       IN  IF Len(a.ticker) > 0 /\ WRAPPED_TOKEN_PATTERNS(a.ticker)
           THEN bonus(st2, "Recognized wrapped token pattern", 30, 30)
           ELSE st2
  ELSE st

singlePoolRule(st, a) ==
  LET st1 == penalty(st, "Single liquidity pool", -30, 30)
      st2 == IF RGtInt(a.marketCap, 10000000) /\ a.circulatingSupply = 0
             THEN penalty(st1,
                    "High market cap with single pool and no circulating supply data",
                    -50, 50)
             ELSE st1
  IN  IF ~RIsZero(a.marketCap) /\ a.totalLiquidity > 0
      THEN IF RatioGt(a.marketCap, a.totalLiquidity, 100)
           THEN penalty(st2, "Extremely high market cap to liquidity ratio", -40, 40)
           ELSE IF RatioGt(a.marketCap, a.totalLiquidity, 50)
           THEN penalty(st2, "High market cap to liquidity ratio", -20, 20)
           ELSE st2
      ELSE st2

\* pool count assessment for tokens with regular pool data
regularPoolRule(st, a) ==
  IF a.poolCount = 0 THEN penalty(st, "No liquidity pools found", -80, 80)
  ELSE IF a.poolCount = 1 THEN singlePoolRule(st, a)
  ELSE IF a.poolCount >= 2 /\ a.poolCount < MIN_POOLS_REQUIRED
  THEN penalty(st, "Low number of liquidity pools", -10, 10)
  ELSE IF a.poolCount >= MIN_POOLS_REQUIRED
  THEN bonus(st, "Good number of liquidity pools", 10, 10)
  ELSE st

poolCountRule(st, a) ==
  IF a.priceFromAveragePrice THEN fallbackPoolRule(st, a) ELSE regularPoolRule(st, a)

\* the tier below MIN_LIQUIDITY_THRESHOLD tested first
liquidityRule_lowTierFirst(st, a) ==
  IF a.totalLiquidity < MIN_LIQUIDITY_THRESHOLD THEN penalty(st, "Low liquidity", -30, 30)
  ELSE IF a.totalLiquidity > 100000 THEN bonus(st, "Very high liquidity", 20, 20)
  ELSE IF a.totalLiquidity > 20000 THEN bonus(st, "Good liquidity", 10, 10)
  ELSE st

liquidityRule(st, a) ==
  IF a.totalLiquidity < 100 THEN penalty(st, "Extremely low liquidity", -70, 70)
  ELSE IF a.totalLiquidity < 500 THEN penalty(st, "Very low liquidity", -50, 50)
  ELSE IF a.totalLiquidity < MIN_LIQUIDITY_THRESHOLD
  THEN penalty(st, "Low liquidity", -30, 30)
  ELSE IF a.totalLiquidity > 100000 THEN bonus(st, "Very high liquidity", 20, 20)
  ELSE IF a.totalLiquidity > 20000 THEN bonus(st, "Good liquidity", 10, 10)
  ELSE st

concentrationRule(st, a) ==
  IF a.suspiciousLiquidity
  THEN IF a.totalLiquidity < 20000
       THEN penalty(st, "Suspicious liquidity distribution with low total liquidity",
                    -30, 30)
       ELSE IF a.totalLiquidity < 50000
       THEN penalty(st, "Suspicious liquidity distribution with moderate liquidity",
                    -15, 15)
       ELSE penalty(st, "Suspicious liquidity distribution despite significant liquidity",
                    -5, 5)
  ELSE st

ratioRule(st, a) ==
  IF ~RIsZero(a.marketCap) /\ a.totalLiquidity > 0
       /\ RatioGt(a.marketCap, a.totalLiquidity, MAX_MCAP_LIQUIDITY_RATIO)
  THEN penalty(st, "Extreme market cap to liquidity ratio", -40, 40)
  ELSE st

\* an age bonus whose recorded points differ from the change of the score
ageRule_mismatch(st, a) ==
  IF a.tokenAge > 365 THEN bonus(st, "Token has existed for more than a year", 15, 10)
  ELSE IF a.tokenAge > 180
  THEN bonus(st, "Token has existed for more than 6 months", 10, 10)
  ELSE IF a.tokenAge > 30
  THEN bonus(st, "Token has existed for more than a month", 5, 5)
  ELSE st

ageRule(st, a) ==
  IF a.tokenAge > 365 THEN bonus(st, "Token has existed for more than a year", 15, 15)
  ELSE IF a.tokenAge > 180
  THEN bonus(st, "Token has existed for more than 6 months", 10, 10)
  ELSE IF a.tokenAge > 30
  THEN bonus(st, "Token has existed for more than a month", 5, 5)
  ELSE st

\* the adjustments in the order of the function body
applyRules(a) ==
  ageRule(ratioRule(concentrationRule(liquidityRule(poolCountRule(manipulationRule(
    supplyRule(copycatRule(blacklistRule(whitelistRule(scoreStart, a), a), a), a),
    a), a), a), a), a), a)

\* score = Math.max(0, score)
flooredScore(score) == IF score < 0 THEN 0 ELSE score

trustLevel(score) ==
  IF score < 20 THEN "Very Low"
  ELSE IF score < 40 THEN "Low"
  ELSE IF score < 60 THEN "Moderate"
  ELSE IF score < 80 THEN "Good"
  ELSE "High"

\* a classification that never flags the Low bucket
isHoneypot_lowNeverFlagged(score, totalLiquidity) == score < 20

isHoneypot(score, totalLiquidity) ==
  IF score < 20 THEN TRUE
  ELSE IF score < 40 THEN totalLiquidity < 5000
  ELSE FALSE

calculateTrustScore(a) ==
  LET st == applyRules(a)
      score == flooredScore(st.score)
  IN  [score |-> score, trustLevel |-> trustLevel(score),
       isHoneypot |-> isHoneypot(score, a.totalLiquidity),
       penalties |-> st.penalties, bonuses |-> st.bonuses,
       priceFromAveragePrice |-> a.priceFromAveragePrice]

TrustArgs(tokenId, poolCount, susp, totalLiquidity, marketCap, circulatingSupply, ticker, tokenAge, fromAvg) ==
  [tokenId |-> tokenId, poolCount |-> poolCount, suspiciousLiquidity |-> susp,
   totalLiquidity |-> totalLiquidity, marketCap |-> marketCap,
   circulatingSupply |-> circulatingSupply, ticker |-> ticker,
   tokenAge |-> tokenAge, priceFromAveragePrice |-> fromAvg]

(***************************************************************************)
(* Specification of the trust scorer alone: the arguments are drawn from   *)
(* values on both sides of every threshold of the rule table.              *)
(***************************************************************************)
TokenIds == TRUSTED_TOKENS
            \cup { "f45b5a5a20bb18a37e6e18c4cfe17dbc9be5aa3d6fa0453c06ee8da5c77e80b346455448",
                   "279c909f348e533da5808898f87f9a14bb2c3dfbbacccd631d927a3f534e454b" }

Tickers == { <<>>, <<"S", "N", "E", "K">>, <<"s", "n", "e", "k">>,
             <<"w", "B", "T", "C">>, <<"e", "t", "h">> }

LiquidityValues == { 0, 99, 100, 499, 500, 4999, 5000, 20000, 20001, 50000, 100001 }

MarketCapValues == { 0, 100000, 1000001, 5000001, 10000001 }

SupplyValues == { 0, 1000, 1000000 }

AgeValues == { 0, 31, 181, 366 }

NoTrustArgs == TrustArgs("", 0, FALSE, 0, RZero, 0, <<>>, 0, FALSE)

\* no call of the scorer is modelled
IdleTrust ==
  /\ tsArgs = NoTrustArgs
  /\ tsOut = calculateTrustScore(NoTrustArgs)
  /\ tsDone = FALSE

TrustInputs ==
  /\ tsArgs \in { TrustArgs(id, pc, susp, liq, RInt(mc), cs, tk, age, avg) :
                    id \in TokenIds, pc \in 0..MaxPools, susp \in BOOLEAN,
                    liq \in LiquidityValues, mc \in MarketCapValues,
                    cs \in SupplyValues, tk \in Tickers, age \in AgeValues,
                    avg \in BOOLEAN }
  /\ tsOut = calculateTrustScore(NoTrustArgs)
  /\ tsDone = FALSE

ScoreToken ==
  /\ ~tsDone
  /\ tsOut' = calculateTrustScore(tsArgs)
  /\ tsDone' = TRUE
  /\ UNCHANGED <<tsArgs, priceVars, enhVars, passVars, appVars>>

(***************************************************************************)
(* Properties of the trust scorer                                          *)
(***************************************************************************)
RECURSIVE SumPoints(_)
SumPoints(adjs) == IF adjs = <<>> THEN 0 ELSE Head(adjs).points + SumPoints(Tail(adjs))

\* the reasons of the rule table in the order the rules are applied
RuleOrder ==
  << "Token is in trusted whitelist", "Token is in honeypot blacklist",
     "Possible copycat token with suspicious name pattern",
     "High liquidity but zero circulating supply reported",
     "Potential price manipulation",
     "Suspicious circulating supply vs. liquidity ratio",
     "No liquidity pools found, using fallback price source",
     "High market cap with no visible liquidity pools",
     "Recognized wrapped token pattern",
     "No liquidity pools found", "Single liquidity pool",
     "High market cap with single pool and no circulating supply data",
     "Extremely high market cap to liquidity ratio",
     "High market cap to liquidity ratio",
     "Low number of liquidity pools", "Good number of liquidity pools",
     "Extremely low liquidity", "Very low liquidity", "Low liquidity",
     "Very high liquidity", "Good liquidity",
     "Suspicious liquidity distribution with low total liquidity",
     "Suspicious liquidity distribution with moderate liquidity",
     "Suspicious liquidity distribution despite significant liquidity",
     "Extreme market cap to liquidity ratio",
     "Token has existed for more than a year",
     "Token has existed for more than 6 months",
     "Token has existed for more than a month" >>

RuleRank(reason) == CHOOSE i \in 1..Len(RuleOrder) : RuleOrder[i] = reason

\* every entry is a rule of the table, and the entries follow the rule order
\* without repetition
InApplicationOrder(adjs) ==
  /\ \A i \in 1..Len(adjs) : \E k \in 1..Len(RuleOrder) : RuleOrder[k] = adjs[i].reason
  /\ \A i, j \in 1..Len(adjs) : i < j => RuleRank(adjs[i].reason) < RuleRank(adjs[j].reason)

AuditedTotal == 100 + SumPoints(tsOut.penalties) + SumPoints(tsOut.bonuses)

\* C7: the returned score is max(0, 100 + sum of the penalty points + sum of
\* the bonus points); every adjustment is recorded once, in application
\* order; penalties carry negative points and bonuses positive points.
C7_ScoreIsAuditedSum ==
  tsDone =>
    /\ tsOut.score = (IF AuditedTotal < 0 THEN 0 ELSE AuditedTotal)
    /\ \A i \in 1..Len(tsOut.penalties) : tsOut.penalties[i].points < 0
    /\ \A i \in 1..Len(tsOut.bonuses) : tsOut.bonuses[i].points > 0
    /\ InApplicationOrder(tsOut.penalties)
    /\ InApplicationOrder(tsOut.bonuses)

C7_Witness ==
  /\ tsDone
  /\ Len(tsOut.penalties) >= 2
  /\ Len(tsOut.bonuses) >= 2
  /\ tsOut.score > 0
  /\ tsOut.score = AuditedTotal

\* C8: the classification follows the floored score: below 20 Very Low and a
\* honeypot; below 40 Low and a honeypot exactly when totalLiquidity < 5000;
\* 40..59 Moderate, 60..79 Good, 80 and above High, none of them a
\* honeypot.  A blacklisted token without pools scores exactly 0.
C8_Classification ==
  tsDone =>
    /\ tsOut.score >= 0
    /\ tsOut.score < 20 => tsOut.trustLevel = "Very Low" /\ tsOut.isHoneypot
    /\ (tsOut.score >= 20 /\ tsOut.score < 40)
         => tsOut.trustLevel = "Low" /\ (tsOut.isHoneypot <=> tsArgs.totalLiquidity < 5000)
    /\ (tsOut.score >= 40 /\ tsOut.score < 60)
         => tsOut.trustLevel = "Moderate" /\ ~tsOut.isHoneypot
    /\ (tsOut.score >= 60 /\ tsOut.score < 80)
         => tsOut.trustLevel = "Good" /\ ~tsOut.isHoneypot
    /\ tsOut.score >= 80 => tsOut.trustLevel = "High" /\ ~tsOut.isHoneypot
    /\ (tsArgs.tokenId \in HONEYPOT_BLACKLIST /\ tsArgs.poolCount = 0
          /\ ~tsArgs.priceFromAveragePrice)
         => tsOut.score = 0 /\ tsOut.trustLevel = "Very Low" /\ tsOut.isHoneypot

C8_Witness ==
  /\ tsDone
  /\ tsArgs.tokenId \in HONEYPOT_BLACKLIST
  /\ tsArgs.poolCount = 0
  /\ ~tsArgs.priceFromAveragePrice
  /\ AuditedTotal < -100
  /\ tsOut.score = 0
  /\ tsOut.trustLevel = "Very Low"
  /\ tsOut.isHoneypot

(***************************************************************************)
(* validateMarketCap                                                       *)
(***************************************************************************)
\* a property read of a JavaScript object: present or undefined
Has(obj, field) == field \in DOMAIN obj

\* trustAssessment.trustScore < 40; a comparison with undefined is false
lowTrustScore(ta) == Has(ta, "trustScore") /\ ta.trustScore < 40

\* trustAssessment.circulatingSupply === 0 || !trustAssessment.circulatingSupply
noCirculatingSupply(ta) == ~Has(ta, "circulatingSupply") \/ ta.circulatingSupply = 0

\* result.valid = false (when invalid); result.reasons.push(reason)
flag(result, invalid, reason) ==
  [result EXCEPT !.valid = IF invalid THEN FALSE ELSE @,
                 !.reasons = Append(@, reason)]

emptyPoolsCheck(result, ta) ==
  IF Has(ta, "emptySuspiciousPools") /\ ta.emptySuspiciousPools
  THEN flag(result, TRUE,
         "Suspicious token: Claims to have pools but no valid liquidity data available")
  ELSE result

noPoolsCheck(result, marketCap, ta) ==
  IF Has(ta, "noPoolsFound") /\ ta.noPoolsFound /\ RGtInt(marketCap, 1000000)
  THEN flag(result, FALSE,
         "No liquidity pools found despite significant market cap - exercise extreme caution")
  ELSE result

supplyDiscrepancyCheck(result, ta) ==
  IF Has(ta, "supplyDiscrepancy") /\ ta.supplyDiscrepancy
  THEN flag(result, TRUE,
         "Suspicious token: Significant discrepancy between reported supply and actual supply")
  ELSE result

\* a liquidity check that invalidates the token below the threshold
minLiquidityCheck_invalidating(result, totalLiquidity) ==
  IF totalLiquidity < MIN_LIQUIDITY_THRESHOLD
  THEN flag(result, TRUE, "Insufficient liquidity") ELSE result

minLiquidityCheck(result, totalLiquidity) ==
  IF totalLiquidity < MIN_LIQUIDITY_THRESHOLD
  THEN flag(result, FALSE, "Insufficient liquidity") ELSE result

ratioCheck(result, marketCap, totalLiquidity) ==
  IF totalLiquidity > 0 /\ ~RIsZero(marketCap)
       /\ RatioGt(marketCap, totalLiquidity, MAX_MCAP_LIQUIDITY_RATIO)
  THEN LET r1 == flag(result, FALSE, "Suspicious market cap to liquidity ratio")
       IN  IF RatioGt(marketCap, totalLiquidity, MAX_MCAP_LIQUIDITY_RATIO * 10)
           THEN flag(r1, TRUE,
                  "Extremely suspicious market cap to liquidity ratio - likely manipulated")
           ELSE r1
  ELSE result

\* a trust check that records the honeypot reason without invalidating
trustCheck_reasonOnly(result, ta) ==
  IF ta.isHoneypot THEN flag(result, FALSE, "Potential honeypot token: Low trust score")
  ELSE IF lowTrustScore(ta) THEN flag(result, FALSE, "Low trust score - exercise caution")
  ELSE result

trustCheck(result, ta) ==
  IF ta.isHoneypot THEN flag(result, TRUE, "Potential honeypot token: Low trust score")
  ELSE IF lowTrustScore(ta) THEN flag(result, FALSE, "Low trust score - exercise caution")
  ELSE result

zeroSupplyCheck(result, marketCap, ta) ==
  IF RGtInt(marketCap, 1000000) /\ noCirculatingSupply(ta)
  THEN LET r1 == flag(result, FALSE,
         "High market cap with zero or unreported circulating supply - potential manipulation")
       IN  IF RGtInt(marketCap, 5000000)
           THEN flag(r1, TRUE,
                  "Invalid market cap calculation: Cannot have high market cap with zero circulating supply")
           ELSE r1
  ELSE result

validateMarketCap(marketCap, totalLiquidity, ta) ==
  LET r0 == [valid |-> TRUE, reasons |-> <<>>,
             trustScore |-> IF Has(ta, "trustScore") THEN ta.trustScore ELSE 0]
  IN  zeroSupplyCheck(
        trustCheck(
          ratioCheck(
            minLiquidityCheck(
              supplyDiscrepancyCheck(
                noPoolsCheck(emptyPoolsCheck(r0, ta), marketCap, ta), ta),
              totalLiquidity),
            marketCap, totalLiquidity),
          ta),
        marketCap, ta)

(***************************************************************************)
(* enhanceTokenData                                                        *)
(***************************************************************************)
\* a token summary of the summaries directory
TokenSummary(id, ticker, circ, total) ==
  [token_id |-> id, ticker |-> ticker, circulating_supply |-> circ, total_supply |-> total]

\* String.prototype.includes on tickers
Includes(t, part) ==
  \E i \in 0..(Len(t) - Len(part)) : SubSeq(t, i + 1, i + Len(part)) = part

\* token.circulating_supply > 0 ? token.circulating_supply : 0
circulatingOf(token) == IF token.circulating_supply > 0 THEN token.circulating_supply ELSE 0

\* circulating || supply, with supply = circulating || token.total_supply || 0
supplyOf(token) == IF circulatingOf(token) # 0 THEN circulatingOf(token) ELSE token.total_supply

\* the loop over the other summary files: a summary with a similar ticker
\* and a circulating supply, while this token reports none
supplyDiscrepancy(token, others, marketCap, totalLiquidity) ==
  /\ Len(token.ticker) > 0
  /\ \E o \in others :
       /\ o.token_id # token.token_id
       /\ Len(o.ticker) > 0
       /\ Includes(o.ticker, token.ticker) \/ Includes(token.ticker, o.ticker)
       /\ o.circulating_supply > 0
       /\ circulatingOf(token) = 0
       /\ RGtInt(marketCap, 1000000)
       /\ totalLiquidity > 100000

\* calculateTrustScore(...) followed by the assignments of the detection flags
trustAssessmentOf(token, others, wp, marketCap, tokenAge) ==
  LET ta == calculateTrustScore(
              TrustArgs(token.token_id, wp.poolCount, wp.suspiciousLiquidity,
                        wp.totalLiquidity, marketCap, circulatingOf(token),
                        token.ticker, tokenAge, wp.priceFromAveragePrice))
      sd == supplyDiscrepancy(token, others, marketCap, wp.totalLiquidity)
  IN  [score |-> ta.score, trustLevel |-> ta.trustLevel, isHoneypot |-> ta.isHoneypot,
       penalties |-> ta.penalties, bonuses |-> ta.bonuses,
       priceFromAveragePrice |-> ta.priceFromAveragePrice,
       potentialCopycatDetected |-> sd, supplyDiscrepancy |-> sd,
       noPoolsFound |-> wp.noPoolsFound,
       emptySuspiciousPools |-> wp.emptySuspiciousPools,
       circulatingSupply |-> circulatingOf(token)]

\* the record returned by the try block
enhancedRecord(token, others, wp, tokenAge) ==
  LET marketCap == RMul(wp.weightedPrice, RInt(supplyOf(token)))
      ta == trustAssessmentOf(token, others, wp, marketCap, tokenAge)
  IN  [token_id |-> token.token_id, ticker |-> token.ticker,
       market_cap |-> marketCap, price |-> wp.weightedPrice,
       liquidity |-> wp.totalLiquidity, circulating_supply |-> circulatingOf(token),
       outliers_filtered |-> wp.filteredOutliers, pool_count |-> wp.poolCount,
       original_pool_count |-> wp.originalPoolCount, median_used |-> wp.medianUsed,
       suspicious_liquidity |-> wp.suspiciousLiquidity,
       price_from_average_price |-> wp.priceFromAveragePrice,
       token_age |-> tokenAge,
       trust_assessment |-> [score |-> ta.score, level |-> ta.trustLevel,
                             penalties |-> ta.penalties, bonuses |-> ta.bonuses],
       honeypot_risk |-> (ta.isHoneypot \/ ta.potentialCopycatDetected),
       validation |-> validateMarketCap(marketCap, wp.totalLiquidity, ta)]

\* the record returned by the catch block
degradedRecord(token) == [token_id |-> token.token_id, error |-> TRUE]

\* env: the responses of the price source, the token age derived from
\* getTokenInfo (0 without a creation date), and whether an exception is
\* raised inside the try block
enhanceTokenData(token, others, env) ==
  IF env.throws THEN degradedRecord(token)
  ELSE enhancedRecord(token, others, calculateWeightedPrice(env.src), env.tokenAge)

(***************************************************************************)
(* Specification of one enhanceTokenData call: the token, the other        *)
(* summaries of the directory and the responses of the price source are    *)
(* drawn from bounded sets.                                                *)
(***************************************************************************)
OtherTokenId == "279c909f348e533da5808898f87f9a14bb2c3dfbbacccd631d927a3f534e454b"

SimilarTokenId == "1d7f33bd23d85e1a25d87d86fac4f199c3197a2f7afeb662a0f34e1e776f726c646d6f62696c65746f6b656e"

EnhanceTokens ==
  { TokenSummary(id, tk, circ, total) :
      id \in TRUSTED_TOKENS \cup
             { "f45b5a5a20bb18a37e6e18c4cfe17dbc9be5aa3d6fa0453c06ee8da5c77e80b346455448",
               OtherTokenId },
      tk \in { <<>>, <<"S", "N", "E", "K">>, <<"w", "B", "T", "C">> },
      circ \in { 0, 1000000 }, total \in { 0, 500000, 2000000, 6000000 } }

EnhanceOthers ==
  { {}, { TokenSummary(SimilarTokenId, <<"S", "N", "E", "K">>, 1000000, 1000000) } }

\* pool lists whose prices and liquidities reach the thresholds of the rules
EnhancePools ==
  { <<>>,
    <<Pool(0, 100)>>,
    <<Pool(10000, 10000)>>,
    <<Pool(100, 100), Pool(300, 100)>>,
    <<Pool(100000, 100000), Pool(60000, 60000), Pool(50000, 50000)>>,
    <<Pool(10000, 10000), Pool(10000, 10000), Pool(10000, 10000)>>,
    <<Pool(1, 2000000)>>,
    <<Pool(200, 20), Pool(200, 20), Pool(100, 10)>>,
    <<Pool(3000, 3000), Pool(3000, 3000)>> }

EnhanceSources ==
  { [pools |-> p, avgBA |-> ba, avgAB |-> ab] :
      p \in { [kind |-> "error", data |-> <<>>] }
            \cup { [kind |-> "list", data |-> s] : s \in EnhancePools },
      ba \in AvgBAResponses, ab \in AvgABResponses }

EnhanceEnvs ==
  { [src |-> src, tokenAge |-> age, throws |-> th] :
      src \in EnhanceSources, age \in AgeValues, th \in BOOLEAN }

NoToken == TokenSummary("", <<>>, 0, 0)

NoEnv == [src |-> [pools |-> [kind |-> "error", data |-> <<>>],
                   avgBA |-> [err |-> TRUE, price |-> RZero],
                   avgAB |-> [err |-> TRUE, price |-> RZero]],
          tokenAge |-> 0, throws |-> TRUE]

\* no call of enhanceTokenData is modelled
IdleEnhance ==
  /\ enhToken = NoToken
  /\ enhOthers = {}
  /\ enhEnv = NoEnv
  /\ enhWp = errorResult
  /\ enhTa = trustAssessmentOf(NoToken, {}, errorResult, RZero, 0)
  /\ enhOut = degradedRecord(NoToken)
  /\ enhDone = FALSE

EnhanceInputs ==
  /\ enhToken \in EnhanceTokens
  /\ enhOthers \in EnhanceOthers
  /\ enhEnv \in EnhanceEnvs
  /\ enhWp = errorResult
  /\ enhTa = trustAssessmentOf(NoToken, {}, errorResult, RZero, 0)
  /\ enhOut = degradedRecord(NoToken)
  /\ enhDone = FALSE

\* one call of enhanceTokenData; enhWp and enhTa are its locals
\* (the destructured price assessment and trustAssessment) at the return
EnhanceToken ==
  /\ ~enhDone
  /\ enhOut' = enhanceTokenData(enhToken, enhOthers, enhEnv)
  /\ enhWp' = IF enhEnv.throws THEN enhWp ELSE calculateWeightedPrice(enhEnv.src)
  /\ enhTa' = IF enhEnv.throws THEN enhTa
              ELSE LET wp == calculateWeightedPrice(enhEnv.src)
                   IN  trustAssessmentOf(enhToken, enhOthers, wp,
                         RMul(wp.weightedPrice, RInt(supplyOf(enhToken))),
                         enhEnv.tokenAge)
  /\ enhDone' = TRUE
  /\ UNCHANGED <<enhToken, enhOthers, enhEnv, priceVars, trustVars, passVars, appVars>>

(***************************************************************************)
(* Properties of the market cap validator within enhanceTokenData          *)
(***************************************************************************)
Enhanced == enhDone /\ ~enhEnv.throws

LowTrustCaution == "Low trust score - exercise caution"

HasReason(validation, reason) ==
  \E i \in 1..Len(validation.reasons) : validation.reasons[i] = reason

\* marketCap / totalLiquidity > 10 x MAX_MCAP_LIQUIDITY_RATIO, both positive
ExtremeRatio ==
  /\ enhOut.liquidity > 0
  /\ ~RIsZero(enhOut.market_cap)
  /\ RatioGt(enhOut.market_cap, enhOut.liquidity, 100000)

\* marketCap > 5,000,000 with zero or unknown circulating supply
ZeroSupplyHighCap ==
  RGtInt(enhOut.market_cap, 5000000) /\ enhOut.circulating_supply = 0

\* one of the four hard rules of the validator contract holds
HardRule ==
  \/ enhWp.emptySuspiciousPools
  \/ ExtremeRatio
  \/ enhTa.isHoneypot
  \/ ZeroSupplyHighCap

\* C4: for a trust assessment with score < 40 that is not a honeypot (and
\* with no other rule invalidating the token), validateMarketCap returns
\* valid = true and its reasons contain the low-trust-score caution.
C4_LowTrustCaution ==
  (Enhanced /\ enhTa.score < 40 /\ ~enhTa.isHoneypot /\ ~HardRule
     /\ ~enhTa.supplyDiscrepancy)
    => enhOut.validation.valid /\ HasReason(enhOut.validation, LowTrustCaution)

\* C5: validateMarketCap returns valid = false whenever a hard rule holds:
\* flagged empty pools, a ratio above 10 x MAX_MCAP_LIQUIDITY_RATIO, a
\* honeypot assessment, or marketCap > 5,000,000 with zero supply; every
\* token classified as a honeypot ends with validation.valid = false.
C5_HardRulesInvalidate ==
  (Enhanced /\ HardRule) => ~enhOut.validation.valid

C5_Witness ==
  /\ Enhanced
  /\ enhTa.isHoneypot
  /\ ~enhWp.emptySuspiciousPools /\ ~ExtremeRatio /\ ~ZeroSupplyHighCap
  /\ ~enhTa.supplyDiscrepancy
  /\ ~enhOut.validation.valid

\* C6 as claimed: when none of the four hard rules holds, validateMarketCap
\* returns valid = true, however many caution reasons it records.
C6_PermissiveAsClaimed ==
  (Enhanced /\ ~HardRule) => enhOut.validation.valid

\* C6 amended: when none of the four hard rules holds and no supply
\* discrepancy with a similarly named token is flagged, validateMarketCap
\* returns valid = true, however many caution reasons it records.
C6_PermissiveByDefault ==
  (Enhanced /\ ~HardRule /\ ~enhTa.supplyDiscrepancy) => enhOut.validation.valid

C6_Witness ==
  /\ Enhanced
  /\ ~HardRule /\ ~enhTa.supplyDiscrepancy
  /\ Len(enhOut.validation.reasons) >= 2
  /\ enhOut.validation.valid

(***************************************************************************)
(* generateMarketCapReport                                                 *)
(***************************************************************************)
MODERATE_TRUST_THRESHOLD == 40

\* token.market_cap > 0 (false for a record without market_cap)
hasMarketCap(token) == Has(token, "market_cap") /\ ~RIsZero(token.market_cap)

\* the filter of validMarketCapTokens
isValidMarketCap(token) ==
  /\ hasMarketCap(token)
  /\ Has(token, "trust_assessment")
  /\ token.trust_assessment.score >= MODERATE_TRUST_THRESHOLD

\* the filter of invalidMarketCapTokens
isInvalidMarketCap(token) ==
  /\ hasMarketCap(token)
  /\ (~Has(token, "trust_assessment")
       \/ token.trust_assessment.score < MODERATE_TRUST_THRESHOLD)

higherMarketCap_ascending(a, b) == RLt(a.market_cap, b.market_cap)

\* (a, b) => b.market_cap - a.market_cap is negative: a goes before b
higherMarketCap(a, b) == RLt(b.market_cap, a.market_cap)

\* Array.prototype.sort is stable: an element is inserted before the first
\* element it must precede
RECURSIVE insertByMarketCap(_, _)
insertByMarketCap(sorted, token) ==
  IF sorted = <<>> THEN <<token>>
  ELSE IF higherMarketCap(token, Head(sorted)) THEN <<token>> \o sorted
  ELSE <<Head(sorted)>> \o insertByMarketCap(Tail(sorted), token)

RECURSIVE sortedByMarketCap(_)
sortedByMarketCap(tokens) ==
  IF tokens = <<>> THEN <<>>
  ELSE insertByMarketCap(sortedByMarketCap(SubSeq(tokens, 1, Len(tokens) - 1)),
                         tokens[Len(tokens)])

generateMarketCapReport(enhancedTokens) ==
  [total_tokens |-> Len(enhancedTokens),
   tokens_with_market_cap |-> Len(SelectSeq(enhancedTokens, hasMarketCap)),
   tokens_with_invalid_market_caps |-> Len(SelectSeq(enhancedTokens, isInvalidMarketCap)),
   tokens_with_valid_market_caps |-> Len(SelectSeq(enhancedTokens, isValidMarketCap)),
   top_tokens_by_market_cap_valid |->
     sortedByMarketCap(SelectSeq(enhancedTokens, isValidMarketCap))]

(***************************************************************************)
(* TokenService.getAllTokens and getTopTokens, file-based deployment       *)
(* (process.env.VERCEL unset); the volume fields of the served records are *)
(* left out                                                                *)
(***************************************************************************)
wrappedTokenIds ==
  { "f66d78b4a3cb3d37afa0ec36461e51ecbde00f26c8f0a68f94b6988069425443",
    "789ef8ae89617f34c07f7f6a12e4d65146f958c0bc15a97b4ff169f1" }

UNKNOWN == <<"U", "N", "K", "N", "O", "W", "N">>

\* token.ticker || 'UNKNOWN'
tickerOrUnknown(token) ==
  IF Has(token, "ticker") /\ Len(token.ticker) > 0 THEN token.ticker ELSE UNKNOWN

\* token.trust_assessment?.score || null (0 stands for null)
trustScoreOf(token) ==
  IF Has(token, "trust_assessment") THEN token.trust_assessment.score ELSE 0

\* the entry pushed for a token of report.top_tokens_by_market_cap_valid
reportEntry(token) ==
  [token_id |-> token.token_id, ticker |-> tickerOrUnknown(token),
   market_cap |-> token.market_cap, price |-> token.price,
   liquidity |-> token.liquidity, tvl |-> token.liquidity * 2,
   pool_count |-> token.pool_count, trust_score |-> trustScoreOf(token),
   has_market_cap |-> TRUE]

\* the forEach over the report: only tokens with at least 200 ADA liquidity
RECURSIVE reportEntries(_)
reportEntries(top) ==
  IF top = <<>> THEN <<>>
  ELSE IF Has(Head(top), "liquidity") /\ Head(top).liquidity >= 200
  THEN <<reportEntry(Head(top))>> \o reportEntries(Tail(top))
  ELSE reportEntries(Tail(top))

\* tokenData.price || tokenData.average_price || null (0 stands for null)
filePrice(tokenData) ==
  IF Has(tokenData, "price") /\ ~RIsZero(tokenData.price) THEN tokenData.price
  ELSE IF Has(tokenData, "average_price") THEN tokenData.average_price
  ELSE RZero

\* tokenData.circulating_supply || tokenData.total_supply || 0
fileSupply(tokenData) ==
  IF Has(tokenData, "circulating_supply") /\ tokenData.circulating_supply # 0
  THEN tokenData.circulating_supply
  ELSE IF Has(tokenData, "total_supply") THEN tokenData.total_supply
  ELSE 0

\* tokenData.liquidity || 0
fileLiquidity(tokenData) == IF Has(tokenData, "liquidity") THEN tokenData.liquidity ELSE 0

\* price * circSupply when both are known, else null (0 stands for null)
fileMarketCap(tokenData) ==
  IF ~RIsZero(filePrice(tokenData)) /\ fileSupply(tokenData) > 0
  THEN RMul(filePrice(tokenData), RInt(fileSupply(tokenData)))
  ELSE RZero

isWrappedToken(tokenData) == tokenData.token_id \in wrappedTokenIds

\* the conditions under which a summary file adds an entry
fileIncluded(tokenData) ==
  /\ \/ isWrappedToken(tokenData)
     \/ /\ Has(tokenData, "ticker") /\ Len(tokenData.ticker) > 0
        /\ ~RIsZero(filePrice(tokenData))
  /\ isWrappedToken(tokenData) \/ fileLiquidity(tokenData) >= 200

\* the entry pushed for a file of the summaries directory
fileEntry(tokenData) ==
  [token_id |-> tokenData.token_id, ticker |-> tickerOrUnknown(tokenData),
   market_cap |-> fileMarketCap(tokenData), price |-> filePrice(tokenData),
   liquidity |-> fileLiquidity(tokenData),
   pool_count |-> IF Has(tokenData, "pool_count") THEN tokenData.pool_count ELSE 0,
   trust_score |-> trustScoreOf(tokenData),
   has_market_cap |-> ~RIsZero(fileMarketCap(tokenData))]

\* tokenFiles.forEach: files whose token is already processed are skipped
RECURSIVE withFileEntries(_, _)
withFileEntries(allTokens, tokenFiles) ==
  IF tokenFiles = <<>> THEN allTokens
  ELSE LET tokenData == Head(tokenFiles)
       IN  IF (\E i \in 1..Len(allTokens) : allTokens[i].token_id = tokenData.token_id)
              \/ ~fileIncluded(tokenData)
           THEN withFileEntries(allTokens, Tail(tokenFiles))
           ELSE withFileEntries(Append(allTokens, fileEntry(tokenData)), Tail(tokenFiles))

\* position of a letter in the alphabet, whatever its case
letterIndex(c) == CHOOSE i \in 1..26 : LowerCase[i] = ToLower(c)

\* a.localeCompare(b) < 0: letters first, then lower case before upper case
RECURSIVE lettersBefore(_, _)
lettersBefore(a, b) ==
  IF b = <<>> THEN FALSE
  ELSE IF a = <<>> THEN TRUE
  ELSE IF letterIndex(Head(a)) # letterIndex(Head(b))
  THEN letterIndex(Head(a)) < letterIndex(Head(b))
  ELSE lettersBefore(Tail(a), Tail(b))

RECURSIVE caseBefore(_, _)
caseBefore(a, b) ==
  IF a = <<>> \/ b = <<>> THEN FALSE
  ELSE IF Head(a) # Head(b) THEN IsLower(Head(a))
  ELSE caseBefore(Tail(a), Tail(b))

localeBefore(a, b) ==
  lettersBefore(a, b) \/ (~lettersBefore(b, a) /\ caseBefore(a, b))

\* the comparator of allTokens.sort is negative: a goes before b
rankedBefore(a, b) ==
  IF a.has_market_cap /\ ~b.has_market_cap THEN TRUE
  ELSE IF ~a.has_market_cap /\ b.has_market_cap THEN FALSE
  ELSE IF a.has_market_cap /\ b.has_market_cap THEN RLt(b.market_cap, a.market_cap)
  ELSE localeBefore(a.ticker, b.ticker)

RECURSIVE insertRanked(_, _)
insertRanked(sorted, token) ==
  IF sorted = <<>> THEN <<token>>
  ELSE IF rankedBefore(token, Head(sorted)) THEN <<token>> \o sorted
  ELSE <<Head(sorted)>> \o insertRanked(Tail(sorted), token)

RECURSIVE sortedAllTokens(_)
sortedAllTokens(tokens) ==
  IF tokens = <<>> THEN <<>>
  ELSE insertRanked(sortedAllTokens(SubSeq(tokens, 1, Len(tokens) - 1)),
                    tokens[Len(tokens)])

\* allTokens.map((token, index) => ({...token, rank: index + 1}))
withRank(tokens) ==
  [i \in 1..Len(tokens) |->
     [f \in DOMAIN tokens[i] \cup {"rank"} |-> IF f = "rank" THEN i ELSE tokens[i][f]]]

\* the list computed from the stored report and the files of the summaries
\* directory
computeAllTokens(storedReport, tokenFiles) ==
  withRank(sortedAllTokens(
    withFileEntries(reportEntries(storedReport.top_tokens_by_market_cap_valid),
                    tokenFiles)))

\* allTokens.filter(token => token.has_market_cap).slice(0, limit)
topTokens(allTokens, limit) ==
  LET filtered == SelectSeq(allTokens, LAMBDA token : token.has_market_cap)
  IN  SubSeq(filtered, 1, IF limit < Len(filtered) THEN limit ELSE Len(filtered))

(***************************************************************************)
(* One run of the integration script (main) beside the serving layer       *)
(***************************************************************************)
\* the summary files a directory may hold, in directory (file name) order
DirectoryTokens ==
  << TokenSummary(SimilarTokenId, <<"S", "N", "E", "K">>, 1000000, 2000000),
     TokenSummary(OtherTokenId, <<"H", "o", "s", "k", "y">>, 0, 6000000),
     TokenSummary("5b26e685cc5c9ad630bde3e3cd48c694436671f3d25df53777ca60ef4e564c",
                  <<"N", "V", "L">>, 1000000, 1000000),
     TokenSummary("f45b5a5a20bb18a37e6e18c4cfe17dbc9be5aa3d6fa0453c06ee8da5c77e80b346455448",
                  <<"F", "E", "T">>, 1000000, 1000000) >>

RECURSIVE filesOf(_, _)
filesOf(present, k) ==
  IF k > Len(DirectoryTokens) THEN <<>>
  ELSE (IF k \in present THEN <<DirectoryTokens[k]>> ELSE <<>>) \o filesOf(present, k + 1)

Directories ==
  { filesOf(present, 1) :
      present \in { P \in SUBSET (1..Len(DirectoryTokens)) : Cardinality(P) <= MaxTokens } }

\* what one enhanceTokenData call of the pass may meet upstream
EnvThreePools ==
  [src |-> [pools |-> [kind |-> "list",
                       data |-> <<Pool(100000, 100000), Pool(60000, 60000),
                                  Pool(50000, 50000)>>],
            avgBA |-> [err |-> FALSE, price |-> RZero],
            avgAB |-> [err |-> FALSE, price |-> RZero]],
   tokenAge |-> 366, throws |-> FALSE]

EnvSinglePool ==
  [src |-> [pools |-> [kind |-> "list", data |-> <<Pool(10000, 10000)>>],
            avgBA |-> [err |-> FALSE, price |-> RZero],
            avgAB |-> [err |-> FALSE, price |-> RZero]],
   tokenAge |-> 0, throws |-> FALSE]

EnvNoPools ==
  [src |-> [pools |-> [kind |-> "list", data |-> <<>>],
            avgBA |-> [err |-> FALSE, price |-> RZero],
            avgAB |-> [err |-> FALSE, price |-> RZero]],
   tokenAge |-> 0, throws |-> FALSE]

\* every request to the price source fails
EnvSourceDown ==
  [src |-> [pools |-> [kind |-> "error", data |-> <<>>],
            avgBA |-> [err |-> TRUE, price |-> RZero],
            avgAB |-> [err |-> TRUE, price |-> RZero]],
   tokenAge |-> 0, throws |-> FALSE]

PassEnvs == { EnvThreePools, EnvSinglePool, EnvNoPools, NoEnv }

NoFile == [exists |-> FALSE, data |-> degradedRecord(NoToken)]

NoReport == [exists |-> FALSE, data |-> generateMarketCapReport(<<>>)]

\* JSON.parse(fs.readFileSync(reportPath)), or the empty report of the catch
readReport(file) ==
  IF file.exists THEN file.data ELSE [top_tokens_by_market_cap_valid |-> <<>>]

\* fs.readdirSync(summariesDir) filtered to the enhanced and summary files:
\* "<id>_enhanced_refined.json" sorts before "<id>_summary.json"
RECURSIVE tokenFilesFrom(_, _, _)
tokenFilesFrom(summaryFiles, enhanced, k) ==
  IF k > Len(summaryFiles) THEN <<>>
  ELSE (IF enhanced[k].exists THEN <<enhanced[k].data>> ELSE <<>>)
       \o <<summaryFiles[k]>> \o tokenFilesFrom(summaryFiles, enhanced, k + 1)

StartTime == 1000

TickMs == 30000

cacheDuration == 60 * 1000

NoResponse == [op |-> "none", limit |-> 0, tokens |-> <<>>]

BATCH_SIZE == 10

BATCH_DELAY_MS == 2000

\* the set of summaries enhanceTokenData finds in the directory
summarySet(files) == { files[k] : k \in 1..Len(files) }

\* the records and the report an earlier successful run over the files left
\* behind (every token then had three pools)
earlierResults(files) ==
  [k \in 1..Len(files) |-> enhanceTokenData(files[k], summarySet(files), EnvThreePools)]

\* the report published earlier; for an empty directory, by a run made
\* before the summary file of the first token was removed
earlierReport(files) ==
  [exists |-> TRUE,
   data |-> generateMarketCapReport(
              earlierResults(IF files = <<>> THEN <<DirectoryTokens[1]>> ELSE files))]

earlierFiles(files) ==
  [k \in 1..Len(files) |-> [exists |-> TRUE, data |-> earlierResults(files)[k]]]

\* neither cache has been filled
NeverCached == [tokens |-> 0, volumes |-> 0]

\* no run of the script and no request is modelled
IdlePass ==
  /\ summaries = <<>>
  /\ envChoices = <<>>
  /\ mainPc = "idle"
  /\ batchStart = 0
  /\ inFlight = {}
  /\ settled = <<>>
  /\ waited = 0
  /\ results = <<>>
  /\ enhancedFiles = <<>>
  /\ report = NoReport
  /\ cachedTokens = [set |-> FALSE, tokens |-> <<>>]
  /\ lastCacheTime = 0
  /\ now = StartTime
  /\ response = NoResponse
  /\ cachedAt = NeverCached

\* the start of main and a fresh TokenService
StartOfRun ==
  /\ mainPc = "start"
  /\ batchStart = 0
  /\ inFlight = {}
  /\ settled = <<>>
  /\ waited = 0
  /\ results = <<>>
  /\ cachedTokens = [set |-> FALSE, tokens |-> <<>>]
  /\ lastCacheTime = 0
  /\ now = StartTime
  /\ response = NoResponse
  /\ cachedAt = NeverCached

\* a first run over a small directory, each call meeting any of PassEnvs
PassInputs ==
  /\ summaries \in Directories
  /\ envChoices = [k \in 1..Len(summaries) |-> PassEnvs]
  /\ enhancedFiles = [k \in 1..Len(summaries) |-> NoFile]
  /\ report = NoReport
  /\ StartOfRun

\* summaries of a directory large enough for a second batch
BatchTokenIds ==
  << SimilarTokenId, OtherTokenId,
     "5b26e685cc5c9ad630bde3e3cd48c694436671f3d25df53777ca60ef4e564c",
     "f45b5a5a20bb18a37e6e18c4cfe17dbc9be5aa3d6fa0453c06ee8da5c77e80b346455448",
     "f5000000000000000000000000000000000000000000000000000005",
     "f6000000000000000000000000000000000000000000000000000006",
     "f7000000000000000000000000000000000000000000000000000007",
     "f8000000000000000000000000000000000000000000000000000008",
     "f9000000000000000000000000000000000000000000000000000009",
     "fa00000000000000000000000000000000000000000000000000000a",
     "fb00000000000000000000000000000000000000000000000000000b",
     "fc00000000000000000000000000000000000000000000000000000c",
     "fd00000000000000000000000000000000000000000000000000000d" >>

BatchTokens ==
  [k \in 1..Len(BatchTokenIds) |->
     IF k <= Len(DirectoryTokens) THEN DirectoryTokens[k]
     ELSE TokenSummary(BatchTokenIds[k], <<"T", "O", "K">>, 1000000, 1000000)]

BatchDirectories ==
  { SubSeq(BatchTokens, 1, n) :
      n \in { k \in 0..MaxBatchTokens : k <= Len(BatchTokens) } }

\* what the calls of one run meet, fixed per token: every token has three
\* pools, the price source is down for every token, or a mix by position
EnvPatterns ==
  { [k \in 1..Len(BatchTokens) |-> EnvThreePools],
    [k \in 1..Len(BatchTokens) |-> EnvSourceDown],
    [k \in 1..Len(BatchTokens) |->
       IF k % 3 = 1 THEN EnvThreePools ELSE IF k % 3 = 2 THEN NoEnv ELSE EnvSinglePool] }

\* a run over a directory of up to MaxBatchTokens summaries, with or
\* without the publication of an earlier run
BatchInputs ==
  /\ summaries \in BatchDirectories
  /\ \E pattern \in EnvPatterns :
       envChoices = [k \in 1..Len(summaries) |-> {pattern[k]}]
  /\ \/ /\ enhancedFiles = [k \in 1..Len(summaries) |-> NoFile]
        /\ report = NoReport
     \/ /\ enhancedFiles = earlierFiles(summaries)
        /\ report = earlierReport(summaries)
  /\ StartOfRun

serverVars == <<cachedTokens, lastCacheTime, now, response, cachedAt>>

batchVars == <<batchStart, inFlight, settled, waited>>

otherVars == <<priceVars, trustVars, enhVars, appVars>>

\* main: loadLocalTokenData, then process.exit(1) without tokens
LoadTokens ==
  /\ mainPc = "start"
  /\ mainPc' = IF Len(summaries) = 0 THEN "failed" ELSE "processing"
  /\ UNCHANGED <<summaries, envChoices, batchVars, results, enhancedFiles, report,
                 serverVars, otherVars>>

\* a slice that takes every remaining token
batchOf_wholeList(tokens, i) == { k \in 1..Len(tokens) : i < k }

\* tokens.slice(i, i + BATCH_SIZE), as positions in tokens
batchOf(tokens, i) == { k \in 1..Len(tokens) : i < k /\ k <= i + BATCH_SIZE }

\* batch.map(token => enhanceTokenData(token)): every call of the batch is
\* started before the await of Promise.allSettled
StartBatch ==
  /\ mainPc = "processing"
  /\ batchStart < Len(summaries)
  /\ inFlight' = batchOf(summaries, batchStart)
  /\ settled' = <<>>
  /\ mainPc' = "awaiting"
  /\ UNCHANGED <<summaries, envChoices, batchStart, waited, results, enhancedFiles,
                 report, serverVars, otherVars>>

\* one enhanceTokenData call of the batch settles; its catch block makes
\* the promise fulfil in every case
Settle ==
  /\ mainPc = "awaiting"
  /\ \E k \in inFlight :
       \E env \in envChoices[k] :
         /\ settled' = [j \in (DOMAIN settled) \cup {k} |->
                          IF j = k
                          THEN [status |-> "fulfilled",
                                value |-> enhanceTokenData(summaries[k],
                                                           summarySet(summaries), env)]
                          ELSE settled[j]]
         /\ inFlight' = inFlight \ {k}
  /\ UNCHANGED <<summaries, envChoices, mainPc, batchStart, waited, results,
                 enhancedFiles, report, serverVars, otherVars>>

\* the pushes of the forEach taken in reverse
batchResults_reversed(outcomes, tokens, i) ==
  LET n == Cardinality(batchOf(tokens, i))
  IN  [j \in 1..n |-> outcomes[i + n + 1 - j].value]

\* batchResults.forEach: the value of a fulfilled promise, or the original
\* token for a rejected one, pushed in the order of the batch
batchResults(outcomes, tokens, i) ==
  [j \in 1..Cardinality(batchOf(tokens, i)) |->
     IF outcomes[i + j].status = "fulfilled" THEN outcomes[i + j].value
     ELSE tokens[i + j]]

\* Promise.allSettled resolves: the results are pushed, then the loop goes
\* on, after the delay when another batch follows
CollectBatch ==
  /\ mainPc = "awaiting"
  /\ inFlight = {}
  /\ results' = results \o batchResults(settled, summaries, batchStart)
  /\ settled' = <<>>
  /\ waited' = 0
  /\ IF batchStart + BATCH_SIZE < Len(summaries)
     THEN mainPc' = "delay" /\ batchStart' = batchStart
     ELSE mainPc' = "processing" /\ batchStart' = batchStart + BATCH_SIZE
  /\ UNCHANGED <<summaries, envChoices, inFlight, enhancedFiles, report,
                 serverVars, otherVars>>

\* a second of the inter-batch delay passes
WaitTick ==
  /\ mainPc = "delay"
  /\ waited < BATCH_DELAY_MS
  /\ waited' = waited + 1000
  /\ UNCHANGED <<summaries, envChoices, mainPc, batchStart, inFlight, settled,
                 results, enhancedFiles, report, serverVars, otherVars>>

\* the timer of setTimeout(resolve, BATCH_DELAY_MS) fires
DelayElapsed ==
  /\ mainPc = "delay"
  /\ waited >= BATCH_DELAY_MS
  /\ mainPc' = "processing"
  /\ batchStart' = batchStart + BATCH_SIZE
  /\ UNCHANGED <<summaries, envChoices, inFlight, settled, waited, results,
                 enhancedFiles, report, serverVars, otherVars>>

\* storeEnhancedTokenData: one "<id>_enhanced_refined.json" per record
StoreEnhancedTokenData ==
  /\ mainPc = "processing"
  /\ batchStart >= Len(summaries)
  /\ enhancedFiles' = [k \in 1..Len(results) |-> [exists |-> TRUE, data |-> results[k]]]
  /\ mainPc' = "stored"
  /\ UNCHANGED <<summaries, envChoices, batchVars, results, report, serverVars,
                 otherVars>>

\* a failed store that goes on to write a report of no tokens
StoreFails_reportWritten ==
  /\ mainPc = "processing"
  /\ batchStart >= Len(summaries)
  /\ report' = [exists |-> TRUE, data |-> generateMarketCapReport(<<>>)]
  /\ mainPc' = "failed"
  /\ UNCHANGED <<summaries, envChoices, batchVars, results, enhancedFiles,
                 serverVars, otherVars>>

\* storeEnhancedTokenData: fs.writeFileSync throws at record j; the catch of
\* main logs the error and exits
StoreFails ==
  /\ mainPc = "processing"
  /\ batchStart >= Len(summaries)
  /\ \E j \in 1..Len(results) :
       enhancedFiles' = [k \in 1..Len(results) |->
                           IF k < j THEN [exists |-> TRUE, data |-> results[k]]
                           ELSE enhancedFiles[k]]
  /\ mainPc' = "failed"
  /\ UNCHANGED <<summaries, envChoices, batchVars, results, report, serverVars,
                 otherVars>>

\* generateMarketCapReport and the write of market_cap_report_refined.json
WriteReport ==
  /\ mainPc = "stored"
  /\ report' = [exists |-> TRUE, data |-> generateMarketCapReport(results)]
  /\ mainPc' = "done"
  /\ UNCHANGED <<summaries, envChoices, batchVars, results, enhancedFiles,
                 serverVars, otherVars>>

\* a cache that never expires
cacheValid_noExpiry == cachedTokens.set /\ lastCacheTime # 0

\* this.cachedTokens && this.lastCacheTime && Date.now() - lastCacheTime < cacheDuration
cacheValid == cachedTokens.set /\ lastCacheTime # 0 /\ now - lastCacheTime < cacheDuration

\* the value getAllTokens returns in the current state
getAllTokens ==
  IF cacheValid THEN cachedTokens.tokens
  ELSE computeAllTokens(readReport(report),
                        tokenFilesFrom(summaries, enhancedFiles, 1))

\* the cache fields after a getAllTokens call
CacheAfterGetAllTokens ==
  /\ cachedTokens' = [set |-> TRUE, tokens |-> getAllTokens]
  /\ lastCacheTime' = IF cacheValid THEN lastCacheTime ELSE now
  /\ cachedAt' = IF cacheValid THEN cachedAt ELSE [cachedAt EXCEPT !.tokens = now]

\* a request served by tokenService.getAllTokens()
GetAllTokens ==
  /\ mainPc # "idle"
  /\ response' = [op |-> "all", limit |-> 0, tokens |-> getAllTokens]
  /\ CacheAfterGetAllTokens
  /\ UNCHANGED <<summaries, envChoices, batchVars, mainPc, results, enhancedFiles, report, now,
                 otherVars>>

\* a request served by tokenService.getTopTokens(limit)
GetTopTokens ==
  /\ mainPc # "idle"
  /\ \E limit \in 1..MaxLimit :
       response' = [op |-> "top", limit |-> limit, tokens |-> topTokens(getAllTokens, limit)]
  /\ CacheAfterGetAllTokens
  /\ UNCHANGED <<summaries, envChoices, batchVars, mainPc, results, enhancedFiles, report, now,
                 otherVars>>

\* time passes
Tick ==
  /\ mainPc # "idle"
  /\ now < StartTime + MaxTicks * TickMs
  /\ now' = now + TickMs
  /\ UNCHANGED <<summaries, envChoices, batchVars, mainPc, results, enhancedFiles, report, cachedTokens,
                 lastCacheTime, response, cachedAt, otherVars>>

(***************************************************************************)
(* Properties of the report and of the served lists                        *)
(***************************************************************************)
reportList == report.data.top_tokens_by_market_cap_valid

ReportIds == { reportList[j].token_id : j \in 1..Len(reportList) }

\* the enriched records the pass has stored
StoredRecords ==
  { enhancedFiles[k].data : k \in { i \in 1..Len(enhancedFiles) : enhancedFiles[i].exists } }

\* the pass leaves the record out of the list: market cap 0 or trust score < 40
LeftOut(rec) ==
  \/ ~Has(rec, "market_cap") \/ RIsZero(rec.market_cap)
  \/ ~Has(rec, "trust_assessment") \/ rec.trust_assessment.score < 40

RecordInvalid(rec) == Has(rec, "validation") /\ ~rec.validation.valid

\* C1: every token returned by getTopTokens(limit) is an entry of the stored
\* report's top_tokens_by_market_cap_valid list; a token whose stored record
\* the pass left out of that list (trust score < 40 or market cap 0) is never
\* returned
C1_TopTokensFromReport ==
  response.op = "top" =>
    \A j \in 1..Len(response.tokens) :
      /\ mainPc = "done" => response.tokens[j].token_id \in ReportIds
      /\ \A rec \in StoredRecords :
           rec.token_id = response.tokens[j].token_id => ~LeftOut(rec)

\* C2: no token whose enriched record has validation.valid = false appears in
\* top_tokens_by_market_cap_valid of the report or in the list returned by
\* getAllTokens
C2_InvalidNeverVisible ==
  /\ \A j \in 1..Len(reportList) : ~RecordInvalid(reportList[j])
  /\ response.op = "all" =>
       \A j \in 1..Len(response.tokens) :
         \A rec \in StoredRecords :
           rec.token_id = response.tokens[j].token_id => ~RecordInvalid(rec)

\* C3: after generateMarketCapReport, a record of the pass is in
\* top_tokens_by_market_cap_valid exactly when its market_cap > 0 and its
\* trust score is >= 40 (records without a trust assessment are excluded),
\* each listed once, and the list is in non-increasing market_cap order
C3_ReportPartition ==
  mainPc = "done" =>
    /\ report.exists
    /\ \A k \in 1..Len(results) :
         (\E j \in 1..Len(reportList) : reportList[j] = results[k]) <=> ~LeftOut(results[k])
    /\ Len(reportList) = Cardinality({ k \in 1..Len(results) : ~LeftOut(results[k]) })
    /\ \A j \in 1..(Len(reportList) - 1) :
         ~RLt(reportList[j].market_cap, reportList[j + 1].market_cap)

\* a report of two listed tokens that the sort had to reorder, beside a
\* record with a market cap left out for its trust score
C3_Witness ==
  /\ mainPc = "done"
  /\ Len(reportList) = 2
  /\ RLt(reportList[2].market_cap, reportList[1].market_cap)
  /\ \E k \in 1..Len(results) :
       /\ Has(results[k], "market_cap") /\ ~RIsZero(results[k].market_cap)
       /\ results[k].trust_assessment.score < 40
  /\ \E k, l \in 1..Len(results) :
       /\ k < l
       /\ results[k] = reportList[2]
       /\ results[l] = reportList[1]

(***************************************************************************)
(* Properties of batchProcessTokens and of the report publication          *)
(***************************************************************************)
\* batchProcessTokens has returned
BatchReturned == mainPc \in {"stored", "done"}

\* the record keeps every field of the summary it was made from
KeepsInput(rec, token) == \A f \in DOMAIN token : Has(rec, f) /\ rec[f] = token[f]

\* C16: when the enrichment of a token fails, batchProcessTokens still yields
\* exactly one record for that token, made of the original input record plus
\* an error marker, and every other token of the pass is enriched; the batch
\* and the pass go on.
C16_DegradedKeepsInput ==
  BatchReturned =>
    /\ Len(results) = Len(summaries)
    /\ \A k \in 1..Len(results) :
         /\ results[k].token_id = summaries[k].token_id
         /\ IF Has(results[k], "error")
            THEN KeepsInput(results[k], summaries[k])
            ELSE Has(results[k], "validation")

\* a batch starts in this step
BatchStarts == inFlight = {} /\ inFlight' # {}

\* C17: never more than BATCH_SIZE enhanceTokenData calls are in flight, and
\* a batch other than the first starts only when every record of the earlier
\* batches has been pushed and BATCH_DELAY_MS has passed since.
C17_BoundedBatches ==
  [][/\ Cardinality(inFlight') <= 10
     /\ (BatchStarts /\ batchStart' > 0)
          => /\ Len(results') = batchStart'
             /\ settled' = <<>>
             /\ waited' >= 2000]_vars

\* the second batch is in flight after the delay
C17_Witness ==
  /\ mainPc = "awaiting"
  /\ batchStart = 10
  /\ inFlight # {}
  /\ Len(results) = 10
  /\ waited >= 2000

\* the record of token k under the enrichment result fixed for it
FixedRecord(k) ==
  enhanceTokenData(summaries[k], summarySet(summaries), CHOOSE env \in envChoices[k] : TRUE)

\* the position in results of an entry of the report list
PositionOf(entry) == CHOOSE k \in 1..Len(results) : results[k].token_id = entry.token_id

\* C18: with the enrichment result of every token fixed, the results array
\* holds the records in token order and top_tokens_by_market_cap_valid is
\* ordered by market cap, equal market caps in token order, whatever the
\* completion order of the calls of a batch.
C18_OrderIndependent ==
  /\ \A k \in 1..Len(results) : results[k] = FixedRecord(k)
  /\ mainPc = "done" =>
       \A j, l \in 1..Len(reportList) :
         j < l =>
           \/ RLt(reportList[l].market_cap, reportList[j].market_cap)
           \/ /\ reportList[l].market_cap = reportList[j].market_cap
              /\ PositionOf(reportList[j]) < PositionOf(reportList[l])

\* two batches were processed and the list has entries of equal market cap
C18_Witness ==
  /\ mainPc = "done"
  /\ Len(summaries) > 10
  /\ Len(reportList) >= 3
  /\ \E j \in 1..(Len(reportList) - 1) :
       reportList[j].market_cap = reportList[j + 1].market_cap

\* C19: the report file changes only in the step that follows a completed
\* store, so a pass that fails (no tokens loaded, or a store that throws)
\* leaves the published report as it was.
C19_ReportWrittenLast ==
  [][/\ report' # report => (mainPc = "stored" /\ mainPc' = "done")
     /\ mainPc' = "failed" => report' = report
     /\ mainPc = "failed" => mainPc' = "failed"]_vars

\* a store failed after the batches, and the earlier report is still there
C19_Witness ==
  /\ mainPc = "failed"
  /\ Len(results) > 0
  /\ report = earlierReport(summaries)
  /\ Len(reportList) > 0
  /\ \E k \in 1..Len(results) : enhancedFiles[k].data = results[k]
  /\ \E k \in 1..Len(results) : enhancedFiles[k].data # results[k]

\* the list the serving layer reads
publishedList(file) == readReport(file).top_tokens_by_market_cap_valid

\* C20: a non-empty published top_tokens_by_market_cap_valid is never
\* replaced by an empty list, also when the price source fails for every
\* token of a pass.
C20_NeverEmptied ==
  [][Len(publishedList(report)) > 0 => Len(publishedList(report')) > 0]_vars

(***************************************************************************)
(* Liquidity tiers and fallback-priced tokens in calculateTrustScore       *)
(***************************************************************************)

\* the reasons of the liquidity tiers
LiquidityTierReasons ==
  { "Extremely low liquidity", "Very low liquidity", "Low liquidity",
    "Very high liquidity", "Good liquidity" }

\* the points recorded under the liquidity-tier reasons, penalties first
TierPoints ==
  LET pen == SelectSeq(tsOut.penalties, LAMBDA e : e.reason \in LiquidityTierReasons)
      bon == SelectSeq(tsOut.bonuses, LAMBDA e : e.reason \in LiquidityTierReasons)
  IN  [k \in 1..(Len(pen) + Len(bon)) |->
         IF k <= Len(pen) THEN pen[k].points ELSE bon[k - Len(pen)].points]

\* C24: at most one liquidity-tier adjustment is recorded, chosen top-down:
\* below 100 ADA -70, below 500 ADA -50,
\* below MIN_LIQUIDITY_THRESHOLD -30, above 100000 ADA +20, above 20000 ADA +10,
\* nothing from 500 to 20000 ADA
C24_OneLiquidityTier ==
  tsDone =>
    LET liq == tsArgs.totalLiquidity
    IN  TierPoints = IF liq < 100 THEN <<-70>>
                     ELSE IF liq < 500 THEN <<-50>>
                     ELSE IF liq < MIN_LIQUIDITY_THRESHOLD THEN <<-30>>
                     ELSE IF liq > 100000 THEN <<20>>
                     ELSE IF liq > 20000 THEN <<10>>
                     ELSE <<>>

C24_Witness ==
  /\ tsDone /\ tsArgs.totalLiquidity = 499 /\ TierPoints = <<-50>>
  /\ \E k \in 1..Len(tsOut.penalties) : tsOut.penalties[k].reason = "Very low liquidity"

\* the arguments enhanceTokenData passes for a token priced by averagePrice
FallbackPriced ==
  /\ tsArgs.priceFromAveragePrice /\ tsArgs.poolCount = 0
  /\ tsArgs.totalLiquidity = 0 /\ tsArgs.suspiciousLiquidity

\* C30: a token priced by the averagePrice fallback and not on the whitelist
\* scores below 20, is flagged as a honeypot, and so never has a valid market cap
C30_FallbackNeverTrusted ==
  (tsDone /\ FallbackPriced /\ tsArgs.tokenId \notin TRUSTED_TOKENS)
    => /\ tsOut.score < 20
       /\ tsOut.isHoneypot
       /\ ~isValidMarketCap([market_cap |-> tsArgs.marketCap,
                             trust_assessment |-> [score |-> tsOut.score]])

C30_Witness ==
  /\ tsDone /\ FallbackPriced
  /\ tsArgs.tokenId \notin TRUSTED_TOKENS \cup HONEYPOT_BLACKLIST
  /\ tsArgs.ticker = <<"w", "B", "T", "C">> /\ tsArgs.tokenAge = 366
  /\ tsArgs.marketCap = RInt(100000) /\ tsOut.score = 5 /\ tsOut.isHoneypot

(***************************************************************************)
(* server.js: refreshTokenData and refreshVolumeData; VolumeService        *)
(***************************************************************************)
\* VolumeService.cacheDuration
volumeCacheDuration == 5 * 60 * 1000

\* the result object of a volume refresh, and the object getVolumeData
\* builds for a missing file: timestamp and total_tokens
volumeData(timestamp, total) == [timestamp |-> timestamp, total_tokens |-> total]

NoVolumeData == volumeData(0, 0)

NoVolumeFile == [exists |-> FALSE, data |-> NoVolumeData]

NoVolumeCache == [set |-> FALSE, data |-> NoVolumeData]

NoTokenCache == [set |-> FALSE, tokens |-> <<>>]

NoRefresh == [done |-> FALSE, data |-> NoVolumeData]

\* a call, who made it, and what it returned ("pending" until it returns)
Event(fn, origin, returned, data) == [fn |-> fn, origin |-> origin, returned |-> returned, data |-> data]

NoEvent == Event("none", "none", "none", NoVolumeData)

\* the callers of refreshTokenData: setInterval of startRefreshScheduler,
\* app.all('/api/refresh-data'), router.all('/refresh')
RefreshOrigins == { "scheduler", "/api/refresh-data", "/api/tokens/refresh" }

\* the callers of server.js refreshVolumeData
VolumeOrigins == { "volumeScheduler", "/api/refresh-volume-data" }

\* a refreshTokenData call that set isRefreshing: the exec of the script, or
\* the Promise.all of lightweightTokenRefresh and refreshVolumeData(true)
Pass(kind, tok, vol) == [kind |-> kind, tok |-> tok, vol |-> vol]

RemoveAt(s, k) == SubSeq(s, 1, k - 1) \o SubSeq(s, k + 1, Len(s))

\* the executions of volumeService.refreshVolumeData in progress
volumeExecutions ==
  Len(volumeRuns)
    + Len(SelectSeq(tokenPasses, LAMBDA p : p.kind = "lightweight" /\ p.vol = "running"))

\* the summaries the served directory holds
ServedDirectory == SubSeq(DirectoryTokens, 1, 2)

\* the guard of refreshTokenData tested on the volume flag
refreshInProgress_volumeFlag == isVolumeRefreshing

\* if (isRefreshing): a pass is already in progress
refreshInProgress == isRefreshing

\* refreshTokenData
RefreshTokenData ==
  \E origin \in RefreshOrigins, scriptExists \in BOOLEAN :
    /\ IF refreshInProgress
       THEN /\ lastEvent' = Event("refreshTokenData", origin, "false", NoVolumeData)
            /\ UNCHANGED <<isRefreshing, tokenPasses, cachedTokens, lastCacheTime,
                           cachedVolumeData, volumeCacheTime, cachedAt>>
       ELSE IF vercel
       THEN /\ isRefreshing' = TRUE
            /\ cachedTokens' = NoTokenCache
            /\ lastCacheTime' = 0
            /\ cachedVolumeData' = NoVolumeCache
            /\ volumeCacheTime' = 0
            /\ cachedAt' = NeverCached
            /\ tokenPasses' = Append(tokenPasses, Pass("lightweight", "running", "running"))
            /\ lastEvent' = Event("refreshTokenData", origin, "pending", NoVolumeData)
       ELSE IF ~scriptExists
       THEN /\ lastEvent' = Event("refreshTokenData", origin, "false", NoVolumeData)
            /\ UNCHANGED <<isRefreshing, tokenPasses, cachedTokens, lastCacheTime,
                           cachedVolumeData, volumeCacheTime, cachedAt>>
       ELSE /\ isRefreshing' = TRUE
            /\ tokenPasses' = Append(tokenPasses, Pass("script", "none", "none"))
            /\ lastEvent' = Event("refreshTokenData", origin, "pending", NoVolumeData)
            /\ UNCHANGED <<cachedTokens, lastCacheTime, cachedVolumeData, volumeCacheTime,
                           cachedAt>>
    /\ UNCHANGED <<vercel, isVolumeRefreshing, volumeRuns, volumeFile, lastRefreshed,
                   summaries, envChoices, batchVars, mainPc, results, enhancedFiles,
                   report, now, response, priceVars, trustVars, enhVars, routerVars,
                   ordersVars>>

\* the files a run of the script leaves over the served directory when
\* every token has three pools
ScriptFiles == earlierFiles(ServedDirectory)

ScriptReport == earlierReport(ServedDirectory)

\* the flag reset only when the script exits without error
flagAfterExit_onlyOnSuccess(error) == error

\* the first statement of the callback of exec: isRefreshing = false
flagAfterExit(error) == FALSE

\* the callback of exec: the script has exited; a run without error has
\* stored its records and written its report (each token had three pools)
ScriptExit ==
  \E k \in 1..Len(tokenPasses), error \in BOOLEAN :
    /\ tokenPasses[k].kind = "script"
    /\ isRefreshing' = flagAfterExit(error)
    /\ tokenPasses' = RemoveAt(tokenPasses, k)
    /\ lastEvent' = Event("refreshTokenData", "callback",
                          IF error THEN "false" ELSE "true", NoVolumeData)
    /\ IF error
       THEN UNCHANGED <<enhancedFiles, report>>
       ELSE /\ enhancedFiles' = ScriptFiles
            /\ report' = ScriptReport
    /\ UNCHANGED <<vercel, isVolumeRefreshing, volumeRuns, volumeFile, cachedVolumeData,
                   volumeCacheTime, lastRefreshed, summaries, envChoices, batchVars,
                   mainPc, results, serverVars, priceVars, trustVars, enhVars,
                   routerVars, ordersVars>>

\* lightweightTokenRefresh of a pass resolves; when refreshVolumeData(true)
\* has resolved before, Promise.all resolves and the pass goes on
LightweightTokenDone ==
  \E k \in 1..Len(tokenPasses), result \in BOOLEAN :
    LET pass == tokenPasses[k]
        returned == IF result THEN "true" ELSE "false"
    IN  /\ pass.kind = "lightweight"
        /\ pass.tok = "running"
        /\ IF pass.vol = "done"
           THEN /\ isRefreshing' = FALSE
                /\ tokenPasses' = RemoveAt(tokenPasses, k)
                /\ cachedTokens' = NoTokenCache
                /\ lastCacheTime' = 0
                /\ cachedVolumeData' = NoVolumeCache
                /\ volumeCacheTime' = 0
                /\ cachedAt' = NeverCached
                /\ lastEvent' = Event("refreshTokenData", "callback", returned, NoVolumeData)
           ELSE /\ tokenPasses' = [tokenPasses EXCEPT ![k].tok = returned]
                /\ IF result
                   THEN /\ cachedTokens' = NoTokenCache
                        /\ lastCacheTime' = 0
                        /\ cachedAt' = [cachedAt EXCEPT !.tokens = 0]
                   ELSE UNCHANGED <<cachedTokens, lastCacheTime, cachedAt>>
                /\ UNCHANGED <<isRefreshing, cachedVolumeData, volumeCacheTime, lastEvent>>
        /\ UNCHANGED <<vercel, isVolumeRefreshing, volumeRuns, volumeFile, lastRefreshed,
                       summaries, envChoices, batchVars, mainPc, results, enhancedFiles,
                       report, now, response, priceVars, trustVars, enhVars, routerVars,
                       ordersVars>>

\* volumeService.refreshVolumeData(true) of a pass resolves:
\* lightweightVolumeRefresh has put its result in the cache
PassVolumeDone ==
  \E k \in 1..Len(tokenPasses) :
    LET pass == tokenPasses[k]
        result == volumeData(now, 1)
    IN  /\ pass.kind = "lightweight"
        /\ pass.vol = "running"
        /\ lastRefreshed' = [done |-> TRUE, data |-> result]
        /\ IF pass.tok # "running"
           THEN /\ isRefreshing' = FALSE
                /\ tokenPasses' = RemoveAt(tokenPasses, k)
                /\ cachedTokens' = NoTokenCache
                /\ lastCacheTime' = 0
                /\ cachedVolumeData' = NoVolumeCache
                /\ volumeCacheTime' = 0
                /\ cachedAt' = NeverCached
                /\ lastEvent' = Event("refreshTokenData", "callback", pass.tok, NoVolumeData)
           ELSE /\ tokenPasses' = [tokenPasses EXCEPT ![k].vol = "done"]
                /\ cachedVolumeData' = [set |-> TRUE, data |-> result]
                /\ volumeCacheTime' = now
                /\ cachedAt' = [cachedAt EXCEPT !.volumes = now]
                /\ UNCHANGED <<isRefreshing, cachedTokens, lastCacheTime, lastEvent>>
        /\ UNCHANGED <<vercel, isVolumeRefreshing, volumeRuns, volumeFile, summaries,
                       envChoices, batchVars, mainPc, results, enhancedFiles, report, now,
                       response, priceVars, trustVars, enhVars, routerVars, ordersVars>>

\* server.js refreshVolumeData
RefreshVolumeData ==
  \E origin \in VolumeOrigins :
    /\ IF isVolumeRefreshing
       THEN /\ lastEvent' = Event("refreshVolumeData", origin, "undefined", NoVolumeData)
            /\ UNCHANGED <<isVolumeRefreshing, volumeRuns>>
       ELSE /\ isVolumeRefreshing' = TRUE
            /\ volumeRuns' = Append(volumeRuns, [by |-> "server"])
            /\ lastEvent' = Event("refreshVolumeData", origin, "pending", NoVolumeData)
    /\ UNCHANGED <<vercel, isRefreshing, tokenPasses, volumeFile, cachedVolumeData,
                   volumeCacheTime, lastRefreshed, passVars, priceVars, trustVars, enhVars,
                   routerVars, ordersVars>>

\* router.all('/refresh-volumes'): await volumeService.refreshVolumeData()
RefreshVolumesRoute ==
  /\ Len(volumeRuns) < MaxVolumeRuns
  /\ volumeRuns' = Append(volumeRuns, [by |-> "router"])
  /\ lastEvent' = Event("router.all('/refresh-volumes')", "/api/tokens/refresh-volumes",
                        "pending", NoVolumeData)
  /\ UNCHANGED <<vercel, isRefreshing, isVolumeRefreshing, tokenPasses, volumeFile,
                 cachedVolumeData, volumeCacheTime, lastRefreshed, passVars, priceVars,
                 trustVars, enhVars, routerVars, ordersVars>>

\* volumeService.refreshVolumeData() resolves or rejects: with VERCEL set
\* lightweightVolumeRefresh caches its result, otherwise the result is
\* written to the volume file unless a step before the write throws
VolumeRunDone ==
  \E k \in 1..Len(volumeRuns), throws \in BOOLEAN :
    LET run == volumeRuns[k]
        result == volumeData(now, 1)
        failed == ~vercel /\ throws
    IN  /\ volumeRuns' = RemoveAt(volumeRuns, k)
        /\ IF vercel
           THEN /\ cachedVolumeData' = [set |-> TRUE, data |-> result]
                /\ volumeCacheTime' = now
                /\ cachedAt' = [cachedAt EXCEPT !.volumes = now]
                /\ lastRefreshed' = [done |-> TRUE, data |-> result]
                /\ UNCHANGED volumeFile
           ELSE IF throws
           THEN UNCHANGED <<volumeFile, cachedVolumeData, volumeCacheTime, cachedAt,
                            lastRefreshed>>
           ELSE /\ volumeFile' = [exists |-> TRUE, data |-> result]
                /\ lastRefreshed' = [done |-> TRUE, data |-> result]
                /\ UNCHANGED <<cachedVolumeData, volumeCacheTime, cachedAt>>
        /\ isVolumeRefreshing' = IF run.by = "server" THEN FALSE ELSE isVolumeRefreshing
        /\ lastEvent' = IF run.by = "server"
                        THEN Event("refreshVolumeData", "callback",
                                   IF failed THEN "false" ELSE "true", NoVolumeData)
                        ELSE Event("router.all('/refresh-volumes')", "callback",
                                   IF failed THEN "500" ELSE "200", NoVolumeData)
        /\ UNCHANGED <<vercel, isRefreshing, tokenPasses, summaries, envChoices, batchVars,
                       mainPc, results, enhancedFiles, report, cachedTokens, lastCacheTime,
                       now, response, priceVars, trustVars, enhVars, routerVars, ordersVars>>

\* this.cachedVolumeData && this.lastCacheTime && Date.now() - lastCacheTime < cacheDuration
volumeCacheValid ==
  cachedVolumeData.set /\ volumeCacheTime # 0 /\ now - volumeCacheTime < volumeCacheDuration

\* the volume file parsed, or the empty data built when it is missing
readVolumeFile == IF volumeFile.exists THEN volumeFile.data ELSE volumeData(now, 0)

\* the value getVolumeData returns in the current state
getVolumeData == IF volumeCacheValid THEN cachedVolumeData.data ELSE readVolumeFile

\* a request served by volumeService.getVolumeData()
GetVolumeData ==
  /\ lastEvent' = Event("getVolumeData", "request",
                        IF volumeCacheValid THEN "cache" ELSE "store", getVolumeData)
  /\ cachedVolumeData' = [set |-> TRUE, data |-> getVolumeData]
  /\ volumeCacheTime' = IF volumeCacheValid THEN volumeCacheTime ELSE now
  /\ cachedAt' = IF volumeCacheValid THEN cachedAt ELSE [cachedAt EXCEPT !.volumes = now]
  /\ UNCHANGED <<vercel, isRefreshing, isVolumeRefreshing, tokenPasses, volumeRuns,
                 volumeFile, lastRefreshed, summaries, envChoices, batchVars, mainPc,
                 results, enhancedFiles, report, cachedTokens, lastCacheTime, now, response,
                 priceVars, trustVars, enhVars, routerVars, ordersVars>>

\* what getAllTokens computes from the report and the token files
storedTokens ==
  computeAllTokens(readReport(report), tokenFilesFrom(summaries, enhancedFiles, 1))

\* router.all('/refresh-tvl'): tokenService.refreshTvlData() sets
\* lastCacheTime = 0 and calls getAllTokens
RefreshTvlData ==
  /\ cachedTokens' = [set |-> TRUE, tokens |-> storedTokens]
  /\ lastCacheTime' = now
  /\ cachedAt' = [cachedAt EXCEPT !.tokens = now]
  /\ UNCHANGED <<lastEvent, vercel, isRefreshing, isVolumeRefreshing, tokenPasses, volumeRuns,
                 volumeFile, cachedVolumeData, volumeCacheTime, lastRefreshed, summaries,
                 envChoices, batchVars, mainPc, results, enhancedFiles, report, now,
                 response, priceVars, trustVars, enhVars, routerVars, ordersVars>>

\* router.all('/refresh-snek'): tokenService.lightweightTokenRefresh(), which
\* ends with clearCache() when it succeeds
RefreshSnek ==
  \E result \in BOOLEAN :
    /\ IF result
       THEN /\ cachedTokens' = NoTokenCache
            /\ lastCacheTime' = 0
            /\ cachedAt' = [cachedAt EXCEPT !.tokens = 0]
       ELSE UNCHANGED <<cachedTokens, lastCacheTime, cachedAt>>
    /\ UNCHANGED <<lastEvent, vercel, isRefreshing, isVolumeRefreshing, tokenPasses, volumeRuns,
                   volumeFile, cachedVolumeData, volumeCacheTime, lastRefreshed, summaries,
                   envChoices, batchVars, mainPc, results, enhancedFiles, report, now,
                   response, priceVars, trustVars, enhVars, routerVars, ordersVars>>

\* the clock values of a served period: the start, one tick later (within
\* both cache durations) and one volume cache duration later (beyond both)
ClockValues == { StartTime, StartTime + TickMs, StartTime + volumeCacheDuration }

\* time passes
Elapse ==
  /\ \E t \in ClockValues : t > now /\ now' = t
  /\ UNCHANGED <<summaries, envChoices, batchVars, mainPc, results, enhancedFiles, report,
                 cachedTokens, lastCacheTime, response, cachedAt, otherVars>>

\* no server is modelled
IdleRefresh ==
  /\ vercel = FALSE
  /\ isRefreshing = FALSE
  /\ isVolumeRefreshing = FALSE
  /\ tokenPasses = <<>>
  /\ volumeRuns = <<>>
  /\ volumeFile = NoVolumeFile
  /\ cachedVolumeData = NoVolumeCache
  /\ volumeCacheTime = 0
  /\ lastEvent = NoEvent
  /\ lastRefreshed = NoRefresh

\* a server that has just started, locally or on Vercel, over a directory of
\* two summaries with or without the files of an earlier run; on Vercel the
\* tokens table is empty, so that getAllTokens falls back to the files
ServerInputs ==
  /\ vercel \in BOOLEAN
  /\ isRefreshing = FALSE
  /\ isVolumeRefreshing = FALSE
  /\ tokenPasses = <<>>
  /\ volumeRuns = <<>>
  /\ volumeFile \in { NoVolumeFile, [exists |-> TRUE, data |-> volumeData(1, 1)] }
  /\ cachedVolumeData = NoVolumeCache
  /\ volumeCacheTime = 0
  /\ lastEvent = NoEvent
  /\ lastRefreshed = NoRefresh
  /\ summaries = ServedDirectory
  /\ envChoices = <<>>
  /\ mainPc = "done"
  /\ batchStart = 0
  /\ inFlight = {}
  /\ settled = <<>>
  /\ waited = 0
  /\ results = <<>>
  /\ enhancedFiles = [k \in 1..Len(summaries) |-> NoFile]
  /\ report = NoReport
  /\ cachedTokens = NoTokenCache
  /\ lastCacheTime = 0
  /\ now = StartTime
  /\ response = NoResponse
  /\ cachedAt = NeverCached

(***************************************************************************)
(* Properties of the refresh passes and of the caches                      *)
(***************************************************************************)
\* C21: at most one refreshTokenData pass is between setting and resetting
\* isRefreshing, and a refreshTokenData call made meanwhile, by whichever
\* caller, returns false and launches neither the script nor a lightweight refresh
C21_PassesSerialized ==
  /\ [](Len(tokenPasses) <= 1 /\ (Len(tokenPasses) = 1 => isRefreshing))
  /\ [][(isRefreshing /\ RefreshTokenData)
          => /\ lastEvent'.returned = "false"
             /\ tokenPasses' = tokenPasses
             /\ volumeExecutions' = volumeExecutions]_vars

C21_Witness ==
  /\ isRefreshing
  /\ Len(tokenPasses) = 1
  /\ lastEvent = Event("refreshTokenData", "/api/tokens/refresh", "false", NoVolumeData)

\* C26: whenever isRefreshing is set it is reset later, whatever the outcome
\* of the script or of the lightweight refresh
C26_FlagEventuallyReset == isRefreshing ~> ~isRefreshing

C26_Witness ==
  /\ ~isRefreshing
  /\ tokenPasses = <<>>
  /\ lastEvent = Event("refreshTokenData", "callback", "false", NoVolumeData)

\* C27: at most one execution of volumeService.refreshVolumeData is in progress
C27_OneVolumeExecution == volumeExecutions <= 1

\* a value was cached less than cacheDuration ago and clearCache has not
\* been called since
TokensFresh == cachedAt.tokens # 0 /\ now - cachedAt.tokens < cacheDuration

VolumesFresh == cachedAt.volumes # 0 /\ now - cachedAt.volumes < volumeCacheDuration

\* C25 as stated: every getAllTokens call, the one made by refreshTvlData
\* included, and every getVolumeData call returns the cached value exactly
\* when a value was cached less than cacheDuration ago and clearCache has
\* not been called since, and otherwise recomputes from the store
C25_CachedUnlessCleared ==
  [][/\ GetAllTokens
          => response'.tokens = IF TokensFresh THEN cachedTokens.tokens ELSE storedTokens
     /\ RefreshTvlData
          => cachedTokens'.tokens = IF TokensFresh THEN cachedTokens.tokens ELSE storedTokens
     /\ GetVolumeData
          => lastEvent'.data = IF VolumesFresh THEN cachedVolumeData.data
                               ELSE readVolumeFile]_vars

\* C25 amended: the same for the getAllTokens and getVolumeData calls of
\* requests, while the getAllTokens call of refreshTvlData always
\* recomputes from the store
C25_CachedUnlessInvalidated ==
  [][/\ GetAllTokens
          => response'.tokens = IF TokensFresh THEN cachedTokens.tokens ELSE storedTokens
     /\ RefreshTvlData => cachedTokens'.tokens = storedTokens
     /\ GetVolumeData
          => lastEvent'.data = IF VolumesFresh THEN cachedVolumeData.data
                               ELSE readVolumeFile]_vars

\* a cached list was served although the files hold another one by now
C25_Witness ==
  /\ response.op = "all"
  /\ TokensFresh
  /\ response.tokens = cachedTokens.tokens
  /\ cachedTokens.tokens # storedTokens

\* C28: once a volume refresh has completed, getVolumeData returns the
\* data of the last completed refresh
C28_RefreshedDataServed ==
  [][(GetVolumeData /\ lastRefreshed.done) => lastEvent'.data = lastRefreshed.data]_vars

(***************************************************************************)
(* The /api/tokens router: route order, parseInt, the handlers             *)
(***************************************************************************)
\* the texts sent as :limit, character by character
LimitTexts == { "2", "0", "-5", "invalid", "10abc", "007" }

chars(text) ==
  CASE text = "2" -> <<"2">>
    [] text = "0" -> <<"0">>
    [] text = "5" -> <<"5">>
    [] text = "-5" -> <<"-", "5">>
    [] text = "invalid" -> <<"i", "n", "v", "a", "l", "i", "d">>
    [] text = "10abc" -> <<"1", "0", "a", "b", "c">>
    [] text = "007" -> <<"0", "0", "7">>

digitOf(c) ==
  CASE c = "0" -> 0 [] c = "1" -> 1 [] c = "2" -> 2 [] c = "3" -> 3 [] c = "4" -> 4
    [] c = "5" -> 5 [] c = "6" -> 6 [] c = "7" -> 7 [] c = "8" -> 8 [] c = "9" -> 9
    [] OTHER -> -1

NaN == [nan |-> TRUE, value |-> 0]

Num(v) == [nan |-> FALSE, value |-> v]

\* the value of the decimal digits of s from position k on
RECURSIVE digitsValue(_, _, _)
digitsValue(s, k, acc) ==
  IF k > Len(s) \/ digitOf(s[k]) < 0 THEN acc
  ELSE digitsValue(s, k + 1, acc * 10 + digitOf(s[k]))

\* parseInt(text): an optional sign and the longest prefix of digits; NaN
\* without a digit
parseInt(s) ==
  LET signed == Len(s) > 0 /\ s[1] \in {"-", "+"}
      start == IF signed THEN 2 ELSE 1
  IN  IF start > Len(s) \/ digitOf(s[start]) < 0 THEN NaN
      ELSE Num((IF signed /\ s[1] = "-" THEN -1 ELSE 1) * digitsValue(s, start, 0))

\* a || b on numbers: NaN and 0 are falsy
orElse(a, b) == IF a.nan \/ a.value = 0 THEN b ELSE a

Lit(text) == [kind |-> "literal", text |-> text]

Param(name) == [kind |-> "param", text |-> name]

Optional(name) == [kind |-> "optional", text |-> name]

Route(method, pattern, handler) == [method |-> method, pattern |-> pattern, handler |-> handler]

\* the routes of the router with the refresh endpoints, in registration order
Routes ==
  << Route("GET", <<>>, "getAllTokens"),
     Route("GET", <<Lit("stats")>>, "getTokenStats"),
     Route("GET", <<Lit("volume-stats")>>, "getVolumeStats"),
     Route("GET", <<Lit("top"), Optional("limit")>>, "top"),
     Route("GET", <<Lit("top-volume"), Optional("limit")>>, "getTopTokensByVolume"),
     Route("GET", <<Lit("search"), Param("query")>>, "searchTokens"),
     Route("GET", <<Param("tokenId")>>, "tokenById"),
     Route("GET", <<Param("tokenId"), Lit("volume")>>, "getTokenVolume"),
     Route("ALL", <<Lit("refresh")>>, "refresh"),
     Route("ALL", <<Lit("refresh-volumes")>>, "refresh-volumes"),
     Route("GET", <<Lit("top-tvl"), Param("limit")>>, "top-tvl"),
     Route("ALL", <<Lit("refresh-tvl")>>, "refresh-tvl"),
     Route("ALL", <<Lit("refresh-snek")>>, "lightweightTokenRefresh"),
     Route("ALL", <<Lit("test-supabase")>>, "testSupabaseConnection"),
     Route("GET", <<Lit("check-tables")>>, "checkTables") >>

\* the routes of the router that validates :limit
ValidatingRoutes ==
  << Route("GET", <<>>, "getAllTokens"),
     Route("GET", <<Lit("top"), Optional("limit")>>, "validatedTop"),
     Route("GET", <<Lit("stats")>>, "getTokenStats"),
     Route("GET", <<Lit("search"), Optional("query")>>, "searchTokens"),
     Route("GET", <<Param("id")>>, "tokenById") >>

\* the path of a request matches a route path from segment k on
RECURSIVE pathMatches(_, _, _)
pathMatches(pattern, path, k) ==
  IF k > Len(pattern) THEN Len(path) < k
  ELSE IF pattern[k].kind = "optional" THEN Len(path) <= k
  ELSE /\ k <= Len(path)
       /\ pattern[k].kind = "param" \/ path[k] = pattern[k].text
       /\ pathMatches(pattern, path, k + 1)

routeMatches(route, req) ==
  /\ route.method \in {"ALL", req.method}
  /\ pathMatches(route.pattern, req.path, 1)

\* the position of the first route that matches, 0 when none does
RECURSIVE firstMatch(_, _, _)
firstMatch(routes, req, k) ==
  IF k > Len(routes) THEN 0
  ELSE IF routeMatches(routes[k], req) THEN k
  ELSE firstMatch(routes, req, k + 1)

Answer(route, status, called, limit) == [route |-> route, status |-> status, called |-> called, limit |-> limit]

\* router.get('/top/:limit?') with the isNaN(limit) || limit < 1 test
validatedTop(req) ==
  LET limit == orElse(IF Len(req.path) = 2 THEN parseInt(chars(req.path[2])) ELSE NaN, Num(50))
  IN  IF limit.nan \/ limit.value < 1
      THEN Answer("validatedTop", 400, "none", limit)
      ELSE Answer("validatedTop", 200, "getTopTokens", limit)

\* router.get('/top/:limit?') of the router with the refresh endpoints
top(req) ==
  Answer("top", 200, "getTopTokens",
         IF Len(req.path) = 2 THEN parseInt(chars(req.path[2])) ELSE Num(50))

\* router.get('/top-tvl/:limit')
topTvl(req) ==
  LET limit == orElse(parseInt(chars(req.path[2])), Num(50))
  IN  IF limit.value <= 0 \/ limit.value > 500
      THEN Answer("top-tvl", 400, "none", limit)
      ELSE Answer("top-tvl", 200, "getTopTokensByTVL", limit)

\* the token ids getTokenById finds
KnownTokenIds == { DirectoryTokens[k].token_id : k \in 1..Len(DirectoryTokens) }

\* router.get('/:tokenId')
tokenById(req) ==
  IF req.path[1] \in KnownTokenIds
  THEN Answer("tokenById", 200, "getTokenById", NaN)
  ELSE Answer("tokenById", 404, "getTokenById", NaN)

\* the answer of a handler; ok: the refresh it awaits succeeds
handle(handler, req, ok) ==
  CASE handler = "validatedTop" -> validatedTop(req)
    [] handler = "top" -> top(req)
    [] handler = "top-tvl" -> topTvl(req)
    [] handler = "tokenById" -> tokenById(req)
    [] handler = "refresh" ->
         Answer("refresh", IF ok THEN 200 ELSE 500, "refreshTokenData", NaN)
    [] handler = "refresh-volumes" ->
         Answer("refresh-volumes", IF ok THEN 200 ELSE 500,
                "volumeService.refreshVolumeData", NaN)
    [] handler = "refresh-tvl" -> Answer("refresh-tvl", 200, "tokenService.refreshTvlData", NaN)
    [] OTHER -> Answer(handler, 200, handler, NaN)

NoRequest == [router |-> "none", method |-> "none", path |-> <<>>]

NoHttpResponse == Answer("none", 0, "none", NaN)

routesOf(req) == IF req.router = "validating" THEN ValidatingRoutes ELSE Routes

\* the router answers the request by its first matching route; a request
\* no route matches is left to the handlers of the app
Dispatch ==
  /\ request # NoRequest
  /\ httpResponse = NoHttpResponse
  /\ \E ok \in BOOLEAN :
       LET k == firstMatch(routesOf(request), request, 1)
       IN  httpResponse' = IF k = 0 THEN Answer("app", 404, "none", NaN)
                           ELSE handle(routesOf(request)[k].handler, request, ok)
  /\ UNCHANGED <<request, priceVars, trustVars, enhVars, passVars, refreshVars, ordersVars>>

\* the paths requested below /api/tokens
RequestPaths ==
  { <<>>, <<"stats">>, <<"volume-stats">>, <<"top">>, <<"top-volume">>,
    <<"search", "snek">>, <<SimilarTokenId>>, <<SimilarTokenId, "volume">>,
    <<"refresh">>, <<"refresh-volumes">>, <<"refresh-tvl">>, <<"refresh-snek">>,
    <<"top-tvl", "5">>, <<"top-tvl", "0">>, <<"test-supabase">>, <<"check-tables">> }
    \cup { <<"top", text>> : text \in LimitTexts }

IdleRouter ==
  /\ request = NoRequest
  /\ httpResponse = NoHttpResponse

\* one request to either router
RouterInputs ==
  /\ request \in [router : {"validating", "refreshing"}, method : {"GET", "POST"},
                  path : RequestPaths]
  /\ httpResponse = NoHttpResponse

\* the limit of the request is no positive integer
InvalidLimit ==
  /\ request.method = "GET"
  /\ Len(request.path) = 2
  /\ request.path[1] = "top"
  /\ LET limit == parseInt(chars(request.path[2])) IN limit.nan \/ limit.value < 1

\* C22: GET /top/:limit with a limit that is no positive integer is answered
\* 400 and getTopTokens is not called
C22_InvalidLimitRejected ==
  (InvalidLimit /\ httpResponse # NoHttpResponse)
    => httpResponse.status = 400 /\ httpResponse.called # "getTopTokens"

\* the function each cron endpoint is to call
CronCalls ==
  [p \in { <<"refresh">>, <<"refresh-volumes">>, <<"refresh-tvl">> } |->
     IF p = <<"refresh">> THEN "refreshTokenData"
     ELSE IF p = <<"refresh-volumes">> THEN "volumeService.refreshVolumeData"
     ELSE "tokenService.refreshTvlData"]

\* C23: a GET or POST request to a cron endpoint of the router reaches the
\* handler of the endpoint, which calls its refresh
C23_CronReachesHandler ==
  (/\ request.router = "refreshing"
   /\ request.path \in DOMAIN CronCalls
   /\ httpResponse # NoHttpResponse)
    => httpResponse.called = CronCalls[request.path]

(***************************************************************************)
(* VolumeService.getAllOrders                                              *)
(***************************************************************************)
MAX_PAGES == 100

PER_PAGE == 50

\* toTime (now) and fromTime (24 hours before) of refreshVolumeData, in ms
OrdersTo == 90000000

OrdersFrom == OrdersTo - 24 * 60 * 60 * 1000

\* an order with its submission_time; dated is FALSE when new Date() of it
\* is an Invalid Date
Order(dated, time) == [dated |-> dated, submission_time |-> time]

\* what POST /swap/globalOrders answers: completed orders, newest first,
\* `step` ms apart from `newest` back, `total` of them; the request of page
\* failAt is rejected or answered without data
OrderFeeds ==
  [newest : {OrdersTo, OrdersTo + 2 * 600000},
   step : {0, 600000},
   total : {0, 49, 50, 120, MAX_PAGES * PER_PAGE + PER_PAGE},
   failAt : {-1, 0, 2},
   failKind : {"error", "noData"},
   dated : BOOLEAN]

NoFeed == [newest |-> 0, step |-> 0, total |-> 0, failAt |-> -1, failKind |-> "error", dated |-> TRUE]

\* the answer to the request of page p
pageOf(feed, p) ==
  IF p = feed.failAt THEN [kind |-> feed.failKind, orders |-> <<>>]
  ELSE LET first == p * PER_PAGE
           left == feed.total - first
           count == IF left <= 0 THEN 0 ELSE IF left < PER_PAGE THEN left ELSE PER_PAGE
       IN  [kind |-> "page",
            orders |-> [j \in 1..count |->
                          IF feed.dated
                          THEN Order(TRUE, feed.newest - (first + j - 1) * feed.step)
                          ELSE Order(FALSE, 0)]]

\* the filter that keeps every order from fromTime on
recentOrders_noUpperBound(orders) ==
  SelectSeq(orders, LAMBDA o : o.dated /\ o.submission_time >= OrdersFrom)

\* orders.filter(orderTime >= fromTime && orderTime <= toTime); a
\* comparison with an Invalid Date is false
recentOrders(orders) ==
  SelectSeq(orders, LAMBDA o : /\ o.dated
                               /\ o.submission_time >= OrdersFrom
                               /\ o.submission_time <= OrdersTo)

\* the page is the last one to ask for: it is short, or its last order is
\* older than fromTime
lastPage(orders) ==
  \/ Len(orders) < PER_PAGE
  \/ /\ Len(orders) > 0
     /\ orders[Len(orders)].dated
     /\ orders[Len(orders)].submission_time < OrdersFrom

\* one turn of the while loop: the request of page currentPage and what
\* follows it; a rejected request and a response without data end in the catch
FetchPage ==
  /\ ordersPc = "loop"
  /\ hasMoreOrders
  /\ currentPage < MAX_PAGES
  /\ pageRequests' = pageRequests + 1
  /\ LET answer == pageOf(orderFeed, currentPage)
     IN  IF answer.kind # "page"
         THEN /\ hasMoreOrders' = FALSE
              /\ UNCHANGED <<allOrders, currentPage>>
         ELSE /\ allOrders' = allOrders \o recentOrders(answer.orders)
              /\ hasMoreOrders' = ~lastPage(answer.orders)
              /\ currentPage' = currentPage + 1
  /\ UNCHANGED <<orderFeed, ordersPc, priceVars, trustVars, enhVars, passVars, refreshVars,
                 routerVars>>

\* the loop ends and allOrders is returned
ReturnOrders ==
  /\ ordersPc = "loop"
  /\ ~(hasMoreOrders /\ currentPage < MAX_PAGES)
  /\ ordersPc' = "returned"
  /\ UNCHANGED <<orderFeed, currentPage, hasMoreOrders, allOrders, pageRequests, priceVars,
                 trustVars, enhVars, passVars, refreshVars, routerVars>>

IdleOrders ==
  /\ orderFeed = NoFeed
  /\ currentPage = 0
  /\ hasMoreOrders = TRUE
  /\ allOrders = <<>>
  /\ pageRequests = 0
  /\ ordersPc = "idle"

\* the start of one getAllOrders(fromTime, toTime) call
OrdersInputs ==
  /\ orderFeed \in OrderFeeds
  /\ currentPage = 0
  /\ hasMoreOrders = TRUE
  /\ allOrders = <<>>
  /\ pageRequests = 0
  /\ ordersPc = "loop"

\* the answer to an earlier request ends the pagination
Stopping(p) ==
  LET answer == pageOf(orderFeed, p)
  IN  answer.kind # "page" \/ lastPage(answer.orders)

\* C29: getAllOrders returns after at most MAX_PAGES page requests; it asks
\* for no page after a rejected request, a short page or a page whose last
\* order is older than fromTime, and goes on otherwise; every order it holds
\* was submitted between fromTime and toTime
C29_BoundedPagination ==
  /\ <>(ordersPc \in {"idle", "returned"})
  /\ [](/\ pageRequests <= MAX_PAGES
        /\ \A k \in 1..Len(allOrders) :
             /\ allOrders[k].dated
             /\ allOrders[k].submission_time >= OrdersFrom
             /\ allOrders[k].submission_time <= OrdersTo)
  /\ [][/\ pageRequests' # pageRequests
           => /\ pageRequests' = pageRequests + 1
              /\ \A p \in 0..(pageRequests - 1) : ~Stopping(p)
        /\ (ordersPc' = "returned" /\ ordersPc = "loop")
           => \/ pageRequests = MAX_PAGES
              \/ pageRequests > 0 /\ Stopping(pageRequests - 1)]_vars

\* a feed that never ends is left after MAX_PAGES requests
C29_Witness ==
  /\ ordersPc = "returned"
  /\ pageRequests = MAX_PAGES
  /\ Len(allOrders) > 0

(***************************************************************************)
(* Specifications                                                          *)
(***************************************************************************)
\* nothing of the server, the router or getAllOrders is modelled
IdleApp == IdleRefresh /\ IdleRouter /\ IdleOrders

InitPrice == PriceInputs /\ IdleTrust /\ IdleEnhance /\ IdlePass /\ IdleApp

NextPrice == ResolvePrice

SpecPrice == InitPrice /\ [][NextPrice]_vars

InitTrust == TrustInputs /\ IdlePrice /\ IdleEnhance /\ IdlePass /\ IdleApp

NextTrust == ScoreToken

SpecTrust == InitTrust /\ [][NextTrust]_vars

InitEnhance == EnhanceInputs /\ IdlePrice /\ IdleTrust /\ IdlePass /\ IdleApp

NextEnhance == EnhanceToken

SpecEnhance == InitEnhance /\ [][NextEnhance]_vars

InitPass == PassInputs /\ IdlePrice /\ IdleTrust /\ IdleEnhance /\ IdleApp

NextPass ==
  \/ LoadTokens
  \/ StartBatch
  \/ Settle
  \/ CollectBatch
  \/ StoreEnhancedTokenData
  \/ StoreFails
  \/ WriteReport
  \/ GetAllTokens
  \/ GetTopTokens
  \/ Tick

SpecPass == InitPass /\ [][NextPass]_vars

InitBatch == BatchInputs /\ IdlePrice /\ IdleTrust /\ IdleEnhance /\ IdleApp

NextBatch ==
  \/ LoadTokens
  \/ StartBatch
  \/ Settle
  \/ CollectBatch
  \/ WaitTick
  \/ DelayElapsed
  \/ StoreEnhancedTokenData
  \/ StoreFails
  \/ WriteReport

SpecBatch == InitBatch /\ [][NextBatch]_vars

InitServer == ServerInputs /\ IdlePrice /\ IdleTrust /\ IdleEnhance /\ IdleRouter /\ IdleOrders

NextRefresh ==
  \/ RefreshTokenData
  \/ ScriptExit
  \/ LightweightTokenDone
  \/ PassVolumeDone
  \/ RefreshVolumeData
  \/ RefreshVolumesRoute
  \/ VolumeRunDone

SpecRefresh == InitServer /\ [][NextRefresh]_vars

\* the script exits and the requests of the lightweight refreshes are answered
SpecRefreshFair ==
  /\ SpecRefresh
  /\ WF_vars(ScriptExit)
  /\ WF_vars(LightweightTokenDone)
  /\ WF_vars(PassVolumeDone)

NextCache ==
  \/ RefreshTokenData
  \/ ScriptExit
  \/ LightweightTokenDone
  \/ PassVolumeDone
  \/ RefreshVolumeData
  \/ VolumeRunDone
  \/ GetVolumeData
  \/ GetAllTokens
  \/ RefreshTvlData
  \/ RefreshSnek
  \/ Elapse

SpecCache == InitServer /\ [][NextCache]_vars

InitRouter == RouterInputs /\ IdlePrice /\ IdleTrust /\ IdleEnhance /\ IdlePass /\ IdleRefresh /\ IdleOrders

NextRouter == Dispatch

SpecRouter == InitRouter /\ [][NextRouter]_vars

InitOrders == OrdersInputs /\ IdlePrice /\ IdleTrust /\ IdleEnhance /\ IdlePass /\ IdleRefresh /\ IdleRouter

NextOrders ==
  \/ FetchPage
  \/ ReturnOrders

\* every request of getAllOrders is answered or rejected
SpecOrders == InitOrders /\ [][NextOrders]_vars /\ WF_vars(NextOrders)

====
